---------------------------- MODULE Spec2Model ----------------------------
(***************************************************************************)
(* A model of silverfish's region / chunk editing pipeline: the deferred   *)
(* block buffer with its de-duplication bitset (chunk.rs, set.rs), the     *)
(* flush of the buffer into the chunk NBT (write.rs), the bit-packed       *)
(* section codec (data.rs), block identity (nbt.rs) and block reads        *)
(* (get.rs, paletted_blocks.rs).                                           *)
(*                                                                         *)
(* Scaling.  The source fixes ChunkData::WIDTH = 16 and mca::REGION_SIZE   *)
(* = 32.  The model keeps every formula of the source but evaluates it     *)
(* with WIDTH = 2^WidthBits and REGION_SIZE = RegionSize, so that a        *)
(* section has WIDTH^3 cells.  A 64-bit long is the set of its one bits.   *)
(***************************************************************************)
EXTENDS Integers, Sequences, FiniteSets, TLC

VARIABLES chunks, flush, hist, task, accepted, calls, codec, config, bio, refs, par, eq, found, bc, gc, bw

vars == <<chunks, flush, hist, task, accepted, calls, codec, config, bio, refs, par, eq, found, bc, gc, bw>>

---------------------------------------------------------------------------
(* Bounds of the model.                                                    *)

WidthBits == 1
RegionSize == 2
MaxCalls == 4

(* Program constants.                                                      *)

MIN_SECTION_Y == -4
MAX_SECTION_Y == 19
MIN_DATA_VERSION == 2860
LONG_BITS == 64
CELL_SIZE == 4

WIDTH == 2 ^ WidthBits
CHUNK_OP == WIDTH - 1
REGION_SIZE == RegionSize
BLOCKS_PER_REGION == WIDTH * REGION_SIZE
BLOCK_DATA_LEN == WIDTH * WIDTH * WIDTH
BIOME_DATA_LEN == CELL_SIZE * CELL_SIZE * CELL_SIZE

(* world_height as the RangeInclusive the chunk keeps: start..=end.        *)
WorldStart == MIN_SECTION_Y * WIDTH
WorldEnd == (MAX_SECTION_Y + 1) * WIDTH - 1
SectionYs == MIN_SECTION_Y .. MAX_SECTION_Y

---------------------------------------------------------------------------
(* Small helpers.                                                          *)

Range(s) == { s[i] : i \in DOMAIN s }

Min(a, b) == IF a < b THEN a ELSE b

(* x & CHUNK_OP on a two's complement integer, WIDTH being a power of two. *)
AndChunkOp(v) == v % WIDTH

(* (y as f64 / WIDTH as f64).floor() *)
FloorDiv(a, b) == a \div b

---------------------------------------------------------------------------
(* 64-bit longs as the set of their one bits (bit 63 is the sign bit).     *)

BitPositions == 0 .. (LONG_BITS - 1)

ToBits(v) == { j \in 0 .. 30 : (v \div (2 ^ j)) % 2 = 1 }

RECURSIVE FromBits(_)
FromBits(bits) ==
    IF bits = {} THEN 0
    ELSE LET j == CHOOSE k \in bits : TRUE
         IN 2 ^ j + FromBits(bits \ {j})

(* i64 << s : bits shifted past bit 63 are lost. *)
Shl(bits, s) == { j + s : j \in bits } \cap BitPositions

(* i64 >> s : arithmetic shift, the sign bit is replicated. *)
Sar(bits, s) ==
    { j - s : j \in { k \in bits : k >= s } }
        \cup (IF (LONG_BITS - 1) \in bits THEN (LONG_BITS - s) .. (LONG_BITS - 1) ELSE {})

(* A faulty mask, one bit too wide: the round trip must tell it apart. *)
MaskWide(bit_count) == 0 .. bit_count

(* (1 << bit_count) - 1 *)
Mask(bit_count) == 0 .. (bit_count - 1)

---------------------------------------------------------------------------
(* data.rs: the bit-packed codec.  Arrays are functions over 0..N-1.       *)

(* The body of encode_data's for loop, from element i on.  st carries      *)
(* offset, currrent_long and new_blockdata.                                *)
RECURSIVE EncodeLoop(_, _, _, _, _)
EncodeLoop(bit_count, data, data_len, i, st) ==
    IF i >= data_len THEN st
    ELSE LET cur == st.currrent_long \cup Shl(ToBits(data[i]), st.offset * bit_count)
             off == st.offset + 1
         IN IF (off * bit_count) + bit_count > LONG_BITS
            THEN EncodeLoop(bit_count, data, data_len, i + 1,
                     [offset |-> 0, currrent_long |-> {},
                      new_blockdata |-> Append(st.new_blockdata, cur)])
            ELSE EncodeLoop(bit_count, data, data_len, i + 1,
                     [offset |-> off, currrent_long |-> cur,
                      new_blockdata |-> st.new_blockdata])

(* A faulty encoder that fills every long to its last bit: an index that   *)
(* does not fit the rest of a long loses its high bits.                    *)
RECURSIVE EncodeLoopPacked(_, _, _, _, _)
EncodeLoopPacked(bit_count, data, data_len, i, st) ==
    IF i >= data_len THEN st
    ELSE LET cur == st.currrent_long \cup Shl(ToBits(data[i]), st.offset * bit_count)
             off == st.offset + 1
         IN IF off * bit_count >= LONG_BITS
            THEN EncodeLoopPacked(bit_count, data, data_len, i + 1,
                     [offset |-> 0, currrent_long |-> {},
                      new_blockdata |-> Append(st.new_blockdata, cur)])
            ELSE EncodeLoopPacked(bit_count, data, data_len, i + 1,
                     [offset |-> off, currrent_long |-> cur,
                      new_blockdata |-> st.new_blockdata])

EncodeDataPacked(bit_count, data, data_len) ==
    LET st == EncodeLoopPacked(bit_count, data, data_len, 0,
                  [offset |-> 0, currrent_long |-> {}, new_blockdata |-> <<>>])
    IN IF st.offset > 0 THEN Append(st.new_blockdata, st.currrent_long)
       ELSE st.new_blockdata

(* encode_data: the long array stored in the state's "data" tag. *)
EncodeData(bit_count, data, data_len) ==
    LET st == EncodeLoop(bit_count, data, data_len, 0,
                  [offset |-> 0, currrent_long |-> {}, new_blockdata |-> <<>>])
    IN IF st.offset > 0 THEN Append(st.new_blockdata, st.currrent_long)
       ELSE st.new_blockdata

(* The while loop of decode_data on one long. *)
RECURSIVE DecodeWord(_, _, _, _, _)
DecodeWord(N, bit_count, data_block, offset, st) ==
    IF (offset * bit_count) + bit_count <= LONG_BITS /\ st.index < N
    THEN LET block == FromBits(Sar(data_block, offset * bit_count) \cap Mask(bit_count))
         IN DecodeWord(N, bit_count, data_block, offset + 1,
                [indexes |-> [st.indexes EXCEPT ![st.index] = block],
                 index |-> st.index + 1])
    ELSE st

RECURSIVE DecodeLongs(_, _, _, _, _)
DecodeLongs(N, bit_count, longs, k, st) ==
    IF k > Len(longs) THEN st
    ELSE DecodeLongs(N, bit_count, longs, k + 1,
             DecodeWord(N, bit_count, longs[k], 0, st))

(* decode_data: data is [present, longs]; the result is the scratch array  *)
(* after the call and the returned count.                                  *)
DecodeData(N, indexes, bit_count, data) ==
    IF data.present
    THEN DecodeLongs(N, bit_count, data.longs, 1, [indexes |-> indexes, index |-> 0])
    ELSE [indexes |-> [i \in 0 .. (N - 1) |-> 0], index |-> N]

ZeroIndexes(N) == [i \in 0 .. (N - 1) |-> 0]

NoData == [present |-> FALSE, longs |-> <<>>]

SomeData(longs) == [present |-> TRUE, longs |-> longs]

(* A faulty bit count whose ranges end one length early. *)
get_block_bit_count_early(len) ==
    IF len < 16 THEN 4
    ELSE IF len < 32 THEN 5
    ELSE IF len < 64 THEN 6
    ELSE IF len < 128 THEN 7
    ELSE IF len < 256 THEN 8
    ELSE IF len < 512 THEN 9
    ELSE IF len < 1024 THEN 10
    ELSE IF len < 2048 THEN 11
    ELSE IF len < 4096 THEN 12
    ELSE 13

(* region.rs get_bit_count: the block bit count of a palette length. *)
get_block_bit_count(len) ==
    IF len <= 16 THEN 4
    ELSE IF len <= 32 THEN 5
    ELSE IF len <= 64 THEN 6
    ELSE IF len <= 128 THEN 7
    ELSE IF len <= 256 THEN 8
    ELSE IF len <= 512 THEN 9
    ELSE IF len <= 1024 THEN 10
    ELSE IF len <= 2048 THEN 11
    ELSE IF len <= 4096 THEN 12
    ELSE 13

(* biome.rs get_bit_count. *)
get_biome_bit_count(len) ==
    IF len <= 1 THEN 0
    ELSE IF len = 2 THEN 1
    ELSE IF len <= 4 THEN 2
    ELSE IF len <= 8 THEN 3
    ELSE IF len <= 16 THEN 4
    ELSE IF len <= 32 THEN 5
    ELSE 6

---------------------------------------------------------------------------
(* nbt.rs: block identity.  A string is the sequence of its tokens, ":"    *)
(* being a token of its own, so that contains(":") and the concatenation   *)
(* "minecraft:" + id are computed, not assumed.                            *)

Colon == ":"

(* Block::populate_namespace *)
populate_namespace(id) ==
    IF Colon \in Range(id) THEN id ELSE <<"minecraft", Colon>> \o id

Namespaced(s) == [kind |-> "Namespaced", s |-> s]

Id(s) == [kind |-> "Id", s |-> s]

(* Name::into_namespaced / Name::into_cow_namespaced, as the NbtString. *)
into_namespaced(name) ==
    IF name.kind = "Namespaced" THEN name.s ELSE populate_namespace(name.s)

(* impl PartialEq<Name> for Name: the raw strings are compared. *)
NameEq(a, b) == a.s = b.s

NoneProps == [some |-> FALSE, map |-> {}]

SomeProps(m) == [some |-> TRUE, map |-> m]

(* Block::try_new and Block::try_new_with_props *)
NewBlock(name) == [name |-> name, properties |-> NoneProps]

NewBlockWithProps(name, m) == [name |-> name, properties |-> SomeProps(m)]

(* #[derive(PartialEq)] on Block *)
BlockEq(a, b) == NameEq(a.name, b.name) /\ a.properties = b.properties

NoTag == [present |-> FALSE, map |-> {}]

(* Block::to_compound *)
to_compound(block) ==
    [Name |-> into_namespaced(block.name),
     Properties |-> IF block.properties.some /\ block.properties.map # {}
                    THEN [present |-> TRUE, map |-> block.properties.map]
                    ELSE NoTag]

(* Block::from_compound *)
from_compound(tag) ==
    [name |-> Namespaced(tag.Name),
     properties |-> IF tag.Properties.present /\ tag.Properties.map # {}
                    THEN SomeProps(tag.Properties.map)
                    ELSE NoneProps]

(* impl PartialEq<&NbtCompound> for &Block *)
BlockEqCompound(block, tag) ==
    /\ into_namespaced(block.name) = tag.Name
    /\ IF block.properties.some
       THEN tag.Properties.present /\ tag.Properties.map = block.properties.map
       ELSE ~tag.Properties.present

AirName == <<"minecraft", Colon, "air">>

AirCompound == [Name |-> AirName, Properties |-> NoTag]

---------------------------------------------------------------------------
(* Chunk NBT.  A section is [Y, block_states |-> [palette, data]]; the     *)
(* palette is the list of block compounds, entry i of the source being     *)
(* palette[i + 1].                                                         *)

PaletteAt(palette, i) == palette[i + 1]

(* palette.iter().position(|c| &block.block == c) : -1 stands for None. *)
Position(palette, block) ==
    LET hits == { i \in 0 .. (Len(palette) - 1) : BlockEqCompound(block, PaletteAt(palette, i)) }
    IN IF hits = {} THEN -1 ELSE CHOOSE i \in hits : \A j \in hits : i <= j

(* Removal of entry i of a Vec. *)
RemoveAt(seq, i) == [j \in 1 .. (Len(seq) - 1) |-> IF j <= i THEN seq[j] ELSE seq[j + 1]]

(* A faulty section index, the layer stride being WIDTH instead of         *)
(* WIDTH * WIDTH: locality must tell it apart.                             *)
SectionIndexFlat(coordinates) ==
    coordinates[1] + coordinates[3] * WIDTH + AndChunkOp(coordinates[2]) * WIDTH

(* write.rs 324-332: the index of a pending edit inside its section. *)
SectionIndex(coordinates) ==
    LET x == coordinates[1]
        y == AndChunkOp(coordinates[2])
        z == coordinates[3]
    IN x + z * WIDTH + y * WIDTH * WIDTH

(* write.rs 297-341: the pending edits of one section, in insertion order. *)
(* st carries palette, old_indexes and cached_palette_indexes.             *)
RECURSIVE ApplyPending(_, _, _)
ApplyPending(pending, k, st) ==
    IF k > Len(pending) THEN st
    ELSE LET block == pending[k].block
             cached == { e \in st.cache : BlockEq(e[1], block) }
             pos == Position(st.palette, block)
             palette_index ==
                 IF cached # {} THEN (CHOOSE e \in cached : TRUE)[2]
                 ELSE IF pos >= 0 THEN pos
                 ELSE Len(st.palette)
             palette ==
                 IF cached = {} /\ pos < 0
                 THEN Append(st.palette, to_compound(block))
                 ELSE st.palette
             cache == IF cached # {} THEN st.cache
                      ELSE st.cache \cup {<<block, palette_index>>}
         IN ApplyPending(pending, k + 1,
                [palette |-> palette,
                 old_indexes |-> [st.old_indexes EXCEPT ![SectionIndex(pending[k].coordinates)] = palette_index],
                 cache |-> cache])

(* region.rs 434-450: palette clean-up over indexes[0..data_len].  The     *)
(* unused entries are removed from the last one downward, and every index  *)
(* above a removed entry moves down by one.                                *)
RECURSIVE RemoveUnused(_, _, _)
RemoveUnused(unused, indexes, palette) ==
    IF unused = {} THEN [indexes |-> indexes, palette |-> palette]
    ELSE LET index == CHOOSE u \in unused : \A v \in unused : v <= u
         IN RemoveUnused(unused \ {index},
                [i \in DOMAIN indexes |-> IF indexes[i] > index THEN indexes[i] - 1 ELSE indexes[i]],
                RemoveAt(palette, index))

(* A faulty clean-up that removes the unused entries and leaves the        *)
(* indexes as they were.                                                   *)
clean_palette_unshifted(indexes, data_len, palette) ==
    [indexes |-> indexes,
     palette |-> SelectSeq(palette,
                    LAMBDA p : \E i \in 0 .. (data_len - 1) : palette[indexes[i] + 1] = p)]

(* A faulty clean-up that keeps every entry: palette soundness must tell   *)
(* it apart.                                                               *)
clean_palette_kept(indexes, data_len, palette) ==
    [indexes |-> indexes, palette |-> palette]

clean_palette(indexes, data_len, palette) ==
    LET unused_indexes ==
            { idx \in 0 .. (Len(palette) - 1) :
                  \A i \in 0 .. (data_len - 1) : indexes[i] # idx }
    IN RemoveUnused(unused_indexes, indexes, palette)

---------------------------------------------------------------------------
(* region.rs: the default chunk, and the chunks of the modelled region.    *)

FullStatus == <<"minecraft", Colon, "full">>

StoneName == <<"minecraft", Colon, "stone">>

StoneCompound == [Name |-> StoneName, Properties |-> NoTag]

(* The light tags of a section the game has lit. *)
LightTags == {"BlockLight", "SkyLight"}

(* region.rs 614-633: a section of get_empty_chunk; it has no light tags,  *)
(* light being the set of those a section holds.                           *)
EmptySection(y) ==
    [Y |-> y, block_states |-> [palette |-> <<AirCompound>>, data |-> NoData], light |-> {}]

(* get_empty_chunk: every section holds the single palette entry air. *)
get_empty_chunk ==
    [Status |-> FullStatus,
     DataVersion |-> MIN_DATA_VERSION,
     isLightOn |-> 0,
     Heightmaps |-> {},
     sections |-> [i \in 1 .. (MAX_SECTION_Y - MIN_SECTION_Y + 1) |-> EmptySection(MIN_SECTION_Y + i - 1)],
     block_entities |-> <<>>]

(* AHashMap::new(): no section has a bucket. *)
EmptyBuffer == [s \in {} |-> <<>>]

(* ChunkData::new *)
NewChunkData(nbt) ==
    [nbt |-> nbt,
     pending_blocks |-> EmptyBuffer,
     seen_blocks |-> {},
     dirty_blocks |-> FALSE]

(* A chunk as read from a region file: section 0 holds stone in its first  *)
(* cell, with a block entity there.  A damaged file carries a data word    *)
(* whose first index points past the palette.                              *)
LoadedSection(damaged) ==
    [Y |-> 0,
     light |-> LightTags,
     block_states |->
        [palette |-> <<AirCompound, StoneCompound>>,
         data |-> SomeData(EncodeData(get_block_bit_count(2),
                     [i \in 0 .. (BLOCK_DATA_LEN - 1) |->
                         IF i = 0 THEN (IF damaged THEN 5 ELSE 1) ELSE 0],
                     BLOCK_DATA_LEN))]]

LoadedChunk(damaged) ==
    [get_empty_chunk EXCEPT
        !.isLightOn = 1,
        !.Heightmaps = {"MOTION_BLOCKING"},
        !.sections = [i \in DOMAIN @ |-> IF @[i].Y = 0 THEN LoadedSection(damaged) ELSE @[i]],
        !.block_entities = <<[x |-> WIDTH, y |-> 0, z |-> 0]>>]

ChunkKeys == (0 .. (REGION_SIZE - 1)) \X (0 .. (REGION_SIZE - 1))

---------------------------------------------------------------------------
(* chunk.rs: the pending buffer of one chunk.                              *)

(* ChunkData::get_block_index: the multiplier of z is end - -start. *)
get_block_index(x, y, z) ==
    LET y_offset == y - WorldStart
    IN x + y_offset * WIDTH + z * WIDTH * (WorldEnd - (0 - WorldStart))

(* (y as f64 / WIDTH as f64).floor() as i8 *)
SectionOf(y) == FloorDiv(y, WIDTH)

(* A set_block that writes the block into the section's NBT at once. *)
ChunkSetBlockDirect(chunk, x, y, z, block) ==
    [chunk |-> [chunk EXCEPT !.nbt.sections =
                   [k \in DOMAIN @ |->
                       IF @[k].Y = SectionOf(y)
                       THEN [@[k] EXCEPT !.block_states =
                               [palette |-> <<to_compound(block)>>, data |-> NoData]]
                       ELSE @[k]]],
     result |-> "Some"]

(* ChunkData::set_block: the chunk after the call and the returned option. *)
ChunkSetBlock(chunk, x, y, z, block) ==
    LET index == get_block_index(x, y, z)
        section_y == SectionOf(y)
        entry == [coordinates |-> <<x, y, z>>, block |-> block]
        bucket == IF section_y \in DOMAIN chunk.pending_blocks
                  THEN chunk.pending_blocks[section_y] ELSE <<>>
    IN IF index \notin chunk.seen_blocks
       THEN [chunk |-> [chunk EXCEPT
                          !.seen_blocks = @ \cup {index},
                          !.pending_blocks =
                              [s \in DOMAIN @ \cup {section_y} |->
                                  IF s = section_y THEN Append(bucket, entry) ELSE @[s]],
                          !.dirty_blocks = TRUE],
             result |-> "Some"]
       ELSE [chunk |-> chunk, result |-> "None"]

(* ChunkData::set_internal_block_buffer *)
set_internal_block_buffer(chunk, buffer) ==
    [chunk EXCEPT !.pending_blocks = buffer, !.seen_blocks = {}]

---------------------------------------------------------------------------
(* write.rs: ChunkData::write_blocks.                                      *)

(* write.rs 251-257: the keys of block_entity_cache. *)
BlockEntityKey(be) == <<AndChunkOp(be.x), AndChunkOp(be.y), AndChunkOp(be.z)>>

(* write.rs 336-340: the cache keys hit by the pending edits of a section. *)
MarkedKeys(pending, keys) ==
    { key \in keys :
        \E k \in 1 .. Len(pending) :
            key = <<pending[k].coordinates[1],
                    AndChunkOp(pending[k].coordinates[2]),
                    pending[k].coordinates[3]>> }

(* write.rs 348-357: block_entities.retain *)
RetainBlockEntities(block_entities, marked) ==
    SelectSeq(block_entities, LAMBDA be : BlockEntityKey(be) \notin marked)

(* A faulty re-encoding that stores data for a single-entry palette too:   *)
(* canonicalization must tell it apart.                                    *)
EncodeSectionAlways(cleaned, data_len) ==
    [err |-> "Ok",
     state |-> [palette |-> cleaned.palette,
                data |-> SomeData(EncodeData(get_block_bit_count(Len(cleaned.palette)),
                                             cleaned.indexes, data_len))],
     old_indexes |-> cleaned.indexes]

(* write.rs 345-371: the palette clean-up and the re-encoding of a        *)
(* section, cleaned being the result of clean_palette.                     *)
EncodeSection(cleaned, data_len) ==
    [err |-> "Ok",
     state |-> [palette |-> cleaned.palette,
                data |-> IF Len(cleaned.palette) = 1 THEN NoData
                         ELSE SomeData(EncodeData(get_block_bit_count(Len(cleaned.palette)),
                                                  cleaned.indexes, data_len))],
     old_indexes |-> cleaned.indexes]

(* write.rs 297-345: the pending edits are applied, the palette cleaned. *)
MergeSection(applied, data_len) ==
    EncodeSection(clean_palette(applied.old_indexes, data_len, applied.palette), data_len)

(* write.rs 290-295: every entry of the scratch array is validated. *)
ValidateSection(state, pending, decoded) ==
    IF \E i \in 0 .. (BLOCK_DATA_LEN - 1) :
           decoded.indexes[i] < 0 \/ decoded.indexes[i] >= Len(state.palette)
    THEN [err |-> "InvalidPaletteIndex", state |-> state, old_indexes |-> decoded.indexes]
    ELSE MergeSection(ApplyPending(pending, 1,
                          [palette |-> state.palette, old_indexes |-> decoded.indexes,
                           cache |-> {}]),
                      decoded.index)

(* write.rs 266-371: one section that has a pending bucket.  The result    *)
(* carries the new block_states, the scratch array and the error, if any.  *)
WriteSection(state, pending, old_indexes) ==
    ValidateSection(state, pending,
        DecodeData(BLOCK_DATA_LEN, old_indexes,
                   get_block_bit_count(Len(state.palette)), state.data))

(* write.rs 261: self.pending_blocks.remove(&y) *)
RemoveBucket(pending_blocks, y) ==
    [s \in DOMAIN pending_blocks \ {y} |-> pending_blocks[s]]

(* A faulty loop step that leaves the light tags of the section in place. *)
SectionDoneLit(st, k, y, res, marked) ==
    IF res.err # "Ok"
    THEN [st EXCEPT !.pending_blocks = RemoveBucket(@, y),
                    !.old_indexes = res.old_indexes,
                    !.err = res.err]
    ELSE [st EXCEPT !.pending_blocks = RemoveBucket(@, y),
                    !.sections[k].block_states = res.state,
                    !.old_indexes = res.old_indexes,
                    !.block_entities = RetainBlockEntities(@, marked),
                    !.cache_keys = {},
                    !.written = @ \cup {y}]

(* The loop state after one section was handled with result res. *)
SectionDone(st, k, y, res, marked) ==
    IF res.err # "Ok"
    THEN [st EXCEPT !.pending_blocks = RemoveBucket(@, y),
                    !.sections[k].light = IF st.update_lighting THEN {} ELSE @,
                    !.old_indexes = res.old_indexes,
                    !.err = res.err]
    ELSE [st EXCEPT !.pending_blocks = RemoveBucket(@, y),
                    !.sections[k].light = IF st.update_lighting THEN {} ELSE @,
                    !.sections[k].block_states = res.state,
                    !.old_indexes = res.old_indexes,
                    !.block_entities = RetainBlockEntities(@, marked),
                    !.cache_keys = {},
                    !.written = @ \cup {y}]

(* write.rs 259-372: the loop over the section list.  st carries the       *)
(* sections, the pending buffer, the block entities with their cache, the  *)
(* scratch array and the error that ended the loop.                        *)
RECURSIVE WriteSections(_, _)
WriteSections(k, st) ==
    IF k > Len(st.sections) \/ st.err # "Ok" THEN st
    ELSE IF st.sections[k].Y \notin DOMAIN st.pending_blocks
    THEN WriteSections(k + 1, st)
    ELSE WriteSections(k + 1,
             SectionDone(st, k, st.sections[k].Y,
                 WriteSection(st.sections[k].block_states,
                              st.pending_blocks[st.sections[k].Y], st.old_indexes),
                 MarkedKeys(st.pending_blocks[st.sections[k].Y], st.cache_keys)))

(* region.rs 41-53: Config and its default. *)
Configs == [create_chunk_if_missing : BOOLEAN, update_lighting : BOOLEAN]

DefaultConfig == [create_chunk_if_missing |-> FALSE, update_lighting |-> TRUE]

(* region.rs 262-273: the chunk must be fully generated; its DataVersion   *)
(* is looked at only when config.create_chunk_if_missing is set.           *)
is_valid_chunk(nbt, cfg) ==
    IF nbt.Status # FullStatus THEN "NotFullyGenerated"
    ELSE IF cfg.create_chunk_if_missing /\ nbt.DataVersion < MIN_DATA_VERSION
    THEN "UnsupportedVersion"
    ELSE "Ok"

(* write.rs 213-225: the NBT once the section loop has ended. *)
FlushedNbt(nbt, done, cfg) ==
    [nbt EXCEPT !.Heightmaps = {},
                !.isLightOn = IF cfg.update_lighting THEN 0 ELSE @,
                !.sections = done.sections,
                !.block_entities = done.block_entities]

(* write.rs 374-379: the chunk when the section loop ended with done. *)
FinishWrite(chunk, done, cfg) ==
    IF done.err # "Ok"
    THEN [chunk |-> [chunk EXCEPT !.nbt = FlushedNbt(@, done, cfg),
                                  !.pending_blocks = done.pending_blocks],
          err |-> done.err, written |-> done.written]
    ELSE [chunk |-> [chunk EXCEPT !.nbt = FlushedNbt(@, done, cfg),
                                  !.pending_blocks = done.pending_blocks,
                                  !.seen_blocks = {},
                                  !.dirty_blocks = FALSE],
          err |-> "Ok", written |-> done.written]

(* ChunkData::write_blocks: the chunk after the call, the result and the   *)
(* sections whose bucket was written.                                      *)
WriteBlocksUnchecked(chunk, cfg, others) ==
    IF is_valid_chunk(chunk.nbt, cfg) # "Ok"
    THEN [chunk |-> chunk, err |-> is_valid_chunk(chunk.nbt, cfg), written |-> {}]
    ELSE FinishWrite(chunk,
             WriteSections(1,
                 [sections |-> chunk.nbt.sections,
                  pending_blocks |-> chunk.pending_blocks,
                  block_entities |-> chunk.nbt.block_entities,
                  cache_keys |-> { BlockEntityKey(chunk.nbt.block_entities[i]) :
                                      i \in 1 .. Len(chunk.nbt.block_entities) },
                  old_indexes |-> ZeroIndexes(BLOCK_DATA_LEN),
                  update_lighting |-> cfg.update_lighting,
                  written |-> {},
                  err |-> "Ok"]),
             cfg)

(* write.rs 213-214: Arc::get_mut fails while the chunk's NBT has other    *)
(* strong references, before anything is read or written.                  *)
ChunkWriteBlocks(chunk, cfg, others) ==
    IF others > 0
    THEN [chunk |-> chunk, err |-> "TriedToAccessArc", written |-> {}]
    ELSE WriteBlocksUnchecked(chunk, cfg, others)

---------------------------------------------------------------------------
(***************************************************************************)
(* Biomes.  A section's "biomes" compound is a palette of biome ids and an *)
(* optional data array over the CELL_SIZE^3 cells of the section; the      *)
(* chunk buffers biome edits as it buffers block edits.  bio[key] holds    *)
(* the biomes compounds of the sections of chunk key and the chunk's biome *)
(* buffer, seen-bits and dirty flag.                                       *)
(***************************************************************************)

Plains == "minecraft:plains"

(* region.rs 615-618: the biomes compound of a default section. *)
EmptyBiomes == [palette |-> <<Plains>>, data |-> NoData]

(* chunk.rs 174-186 with region.rs 611-657 *)
NewBiomeData ==
    [sections |-> [y \in SectionYs |-> EmptyBiomes],
     pending_biomes |-> EmptyBuffer,
     seen_biomes |-> {},
     dirty_biomes |-> FALSE]

(* write.rs 443-446, get.rs 229-232: the index of a cell in its section. *)
BiomeIndex(cell) == cell[1] + cell[3] * CELL_SIZE + cell[2] * CELL_SIZE * CELL_SIZE

(* chunk.rs 127-142 *)
get_biome_index(section, cell) ==
    (section - (WorldStart \div WIDTH)) * CELL_SIZE * CELL_SIZE * CELL_SIZE
       + cell[1] + cell[3] * CELL_SIZE + cell[2] * CELL_SIZE * CELL_SIZE

(* chunk.rs 92-114: ChunkData::set_biome *)
ChunkSetBiome(b, section, cell, id) ==
    IF get_biome_index(section, cell) \notin b.seen_biomes
    THEN [b |-> [b EXCEPT
                    !.seen_biomes = @ \cup {get_biome_index(section, cell)},
                    !.pending_biomes =
                        IF section \in DOMAIN @
                        THEN [@ EXCEPT ![section] = Append(@, [cell |-> cell, id |-> id])]
                        ELSE [s \in DOMAIN @ \cup {section} |->
                                 IF s = section THEN <<[cell |-> cell, id |-> id]>> ELSE @[s]],
                    !.dirty_biomes = TRUE],
          result |-> "Some"]
    ELSE [b |-> b, result |-> "None"]

(* palette.iter().position(|b| b == biome.id) : -1 stands for None. *)
BiomePosition(palette, id) ==
    LET hits == { i \in 0 .. (Len(palette) - 1) : PaletteAt(palette, i) = id }
    IN IF hits = {} THEN -1 ELSE CHOOSE i \in hits : \A j \in hits : i <= j

(* write.rs 426-449: the pending biomes of one section, in insertion       *)
(* order.  st carries palette, old_indexes and cached_palette_indexes.     *)
RECURSIVE ApplyPendingBiomes(_, _, _)
ApplyPendingBiomes(pending, k, st) ==
    IF k > Len(pending) THEN st
    ELSE LET id == pending[k].id
             cached == { e \in st.cache : e[1] = id }
             pos == BiomePosition(st.palette, id)
             palette_index ==
                 IF cached # {} THEN (CHOOSE e \in cached : TRUE)[2]
                 ELSE IF pos >= 0 THEN pos
                 ELSE Len(st.palette)
             palette ==
                 IF cached = {} /\ pos < 0 THEN Append(st.palette, id) ELSE st.palette
             cache == IF cached # {} THEN st.cache
                      ELSE st.cache \cup {<<id, palette_index>>}
         IN ApplyPendingBiomes(pending, k + 1,
                [palette |-> palette,
                 old_indexes |-> [st.old_indexes EXCEPT ![BiomeIndex(pending[k].cell)] = palette_index],
                 cache |-> cache])

(* write.rs 451-465: palette clean-up and the new data of the section. *)
EncodeBiomes(cleaned, data_len) ==
    [state |-> [palette |-> cleaned.palette,
                data |-> IF Len(cleaned.palette) = 1 THEN NoData
                         ELSE SomeData(EncodeData(get_biome_bit_count(Len(cleaned.palette)),
                                                  cleaned.indexes, data_len))],
     old_indexes |-> cleaned.indexes]

MergeBiomes(applied, data_len) ==
    EncodeBiomes(clean_palette(applied.old_indexes, data_len, applied.palette), data_len)

(* write.rs 424: the stored data is decoded with the block bit count of    *)
(* the palette length, into the scratch array kept across sections.        *)
DecodeBiomes(state, old_indexes) ==
    DecodeData(BIOME_DATA_LEN, old_indexes, get_block_bit_count(Len(state.palette)), state.data)

(* write.rs 399-466: one section with a pending bucket. *)
WriteBiomeSection(state, pending, decoded) ==
    MergeBiomes(ApplyPendingBiomes(pending, 1,
                    [palette |-> state.palette, old_indexes |-> decoded.indexes, cache |-> {}]),
                decoded.index)

(* write.rs 399-466: the sections of the chunk in the order of the list. *)
RECURSIVE WriteBiomeSections(_, _, _)
WriteBiomeSections(y, b, old_indexes) ==
    IF y > MAX_SECTION_Y THEN b
    ELSE IF y \notin DOMAIN b.pending_biomes THEN WriteBiomeSections(y + 1, b, old_indexes)
    ELSE LET r == WriteBiomeSection(b.sections[y], b.pending_biomes[y],
                                    DecodeBiomes(b.sections[y], old_indexes))
         IN WriteBiomeSections(y + 1,
                [b EXCEPT !.sections[y] = r.state,
                          !.pending_biomes = RemoveBucket(@, y)],
                r.old_indexes)

(* write.rs 383-475: ChunkData::write_biomes on a chunk whose NBT has      *)
(* `others` further strong references.                                     *)
ChunkWriteBiomes(nbt, b, cfg, others) ==
    IF others > 0 THEN [b |-> b, err |-> "TriedToAccessArc"]
    ELSE IF is_valid_chunk(nbt, cfg) # "Ok" THEN [b |-> b, err |-> is_valid_chunk(nbt, cfg)]
    ELSE [b |-> [WriteBiomeSections(MIN_SECTION_Y, b, ZeroIndexes(BIOME_DATA_LEN))
                    EXCEPT !.seen_biomes = {}, !.dirty_biomes = FALSE],
          err |-> "Ok"]

(* get.rs 186-254: Region::get_biome of one cell of a chunk. *)
ChunkGetBiome(b, section, cell) ==
    LET state == b.sections[section]
        decoded == DecodeData(BIOME_DATA_LEN, ZeroIndexes(BIOME_DATA_LEN),
                              get_biome_bit_count(Len(state.palette)), state.data)
        palette_index == decoded.indexes[BiomeIndex(cell)]
    IN IF palette_index >= Len(state.palette)
       THEN [ok |-> FALSE, id |-> Plains]
       ELSE [ok |-> TRUE, id |-> PaletteAt(state.palette, palette_index)]

BioInit == [k \in ChunkKeys |-> NewBiomeData]

NoRefs == [k \in ChunkKeys |-> 0]

---------------------------------------------------------------------------
(* get.rs: reading a block back.                                           *)

(* find_blocks, for one coordinate of the chunk: the palette entry that    *)
(* the decoded index selects, as a Block.                                  *)
ChunkGetBlock(nbt, x, y, z) ==
    LET hits == { k \in 1 .. Len(nbt.sections) : nbt.sections[k].Y = SectionOf(y) }
        state == nbt.sections[CHOOSE k \in hits : TRUE].block_states
        decoded == DecodeData(BLOCK_DATA_LEN, ZeroIndexes(BLOCK_DATA_LEN),
                              get_block_bit_count(Len(state.palette)), state.data)
        index == AndChunkOp(x) + AndChunkOp(z) * WIDTH + AndChunkOp(y) * WIDTH * WIDTH
        palette_index == decoded.indexes[index]
    IN IF hits = {} \/ palette_index >= Len(state.palette)
       THEN [ok |-> FALSE, block |-> NewBlock(Namespaced(AirName))]
       ELSE [ok |-> TRUE, block |-> from_compound(PaletteAt(state.palette, palette_index))]

---------------------------------------------------------------------------
(***************************************************************************)
(* paletted_blocks.rs: the result set of a bulk query.                     *)
(***************************************************************************)

(* u32::MAX, the value of a vacant cell: all 32 bits set, written as the   *)
(* signed value of that pattern.  No constructed value has bit 31 set.     *)
Vacant == -1

(* PalettedBlocks::construct_block_val, below its assert. *)
construct_block_val(palette, palette_index) == palette_index * (2 ^ 16) + palette

(* PalettedBlocks::deconstruct_block_val *)
deconstruct_block_val(val) == <<val % (2 ^ 16), (val \div (2 ^ 16)) % (2 ^ 16)>>

(* PalettedBlocks::to_index *)
to_index(bottom_y, width, coords) ==
    (coords[2] - bottom_y) * width * width + coords[3] * width + coords[1]

(* to_coords with x and z exchanged. *)
to_coords_swapped(bottom_y, width, index) ==
    LET y == (index \div width) \div width
        z == (index - y * width * width) \div width
        x == index - y * width * width - z * width
    IN <<z, y + bottom_y, x>>

(* PalettedBlocks::to_coords *)
to_coords(bottom_y, width, index) ==
    LET y == (index \div width) \div width
        z == (index - y * width * width) \div width
        x == index - y * width * width - z * width
    IN <<x, y + bottom_y, z>>

(* PalettedBlocks::new.  blocks holds the cells whose value is not         *)
(* u32::MAX; every other index below cells holds u32::MAX.                 *)
NewPalettedBlocks(bottom_y, height, width) ==
    [palette |-> <<>>,
     blocks |-> [i \in {} |-> Vacant],
     placed_blocks |-> {},
     bottom_y |-> bottom_y,
     width |-> width,
     cells |-> width * height * width]

(* The value of a cell. *)
CellValue(pb, index) == IF index \in DOMAIN pb.blocks THEN pb.blocks[index] ELSE Vacant

(* blocks[index] = val *)
SetCell(blocks, index, val) ==
    IF val = Vacant
    THEN [i \in DOMAIN blocks \ {index} |-> blocks[i]]
    ELSE [i \in DOMAIN blocks \cup {index} |-> IF i = index THEN val ELSE blocks[i]]

(* PalettedBlocks::len *)
PalLen(pb) == Cardinality(pb.placed_blocks)

(* An operation's outcome: the set after it and how it returned. *)
PalResult(pb, err) == [pb |-> pb, err |-> err]

(* PalettedBlocks::insert_at: the handle gains a reference, then the cell  *)
(* is written.  An unknown handle, a palette_index of 4096 or more, and a  *)
(* cell past the array panic.                                              *)
insert_at(pb, coords, palette, palette_index) ==
    LET block_index == to_index(pb.bottom_y, pb.width, coords)
    IN IF palette >= Len(pb.palette) THEN PalResult(pb, "panic")
       ELSE IF palette_index >= 4096 \/ block_index < 0 \/ block_index >= pb.cells
       THEN PalResult([pb EXCEPT !.palette[palette + 1].refs = @ + 1], "panic")
       ELSE PalResult(
              [pb EXCEPT !.palette[palette + 1].refs = @ + 1,
                         !.blocks = SetCell(@, block_index,
                                            construct_block_val(palette, palette_index)),
                         !.placed_blocks = @ \cup {block_index}],
              "Ok")

(* The handles whose palette equals the given one. *)
Handles(pb, palette) == { k \in 0 .. (Len(pb.palette) - 1) : pb.palette[k + 1].entries = palette }

SetMax(S) == CHOOSE m \in S : \A k \in S : k <= m

SetMin(S) == CHOOSE m \in S : \A k \in S : m <= k

(* PalettedBlocks::insert: the last handle with an equal palette is used,  *)
(* or a new one is pushed with one reference.                              *)
insert(pb, coords, palette, palette_index) ==
    LET block_index == to_index(pb.bottom_y, pb.width, coords)
        matches == Handles(pb, palette)
        index == IF matches # {} THEN SetMax(matches) ELSE Len(pb.palette)
        counted == IF matches # {}
                   THEN [pb.palette EXCEPT ![index + 1].refs = @ + 1]
                   ELSE Append(pb.palette, [entries |-> palette, refs |-> 1])
    IN IF palette_index >= 4096 \/ block_index < 0 \/ block_index >= pb.cells
       THEN PalResult([pb EXCEPT !.palette = counted], "panic")
       ELSE PalResult(
              [pb EXCEPT !.palette = counted,
                         !.blocks = SetCell(@, block_index,
                                            construct_block_val(index, palette_index)),
                         !.placed_blocks = @ \cup {block_index}],
              "Ok")

(* PalettedBlocks::insert_palette_only: the handle of the palette, pushed  *)
(* with no reference when it is new.                                       *)
insert_palette_only(pb, palette) ==
    IF Handles(pb, palette) # {}
    THEN [pb |-> pb, index |-> SetMin(Handles(pb, palette))]
    ELSE [pb |-> [pb EXCEPT !.palette = Append(@, [entries |-> palette, refs |-> 0])],
          index |-> Len(pb.palette)]

(* shift_indexes that leaves every cell as it is. *)
keep_indexes(pb, index) == pb

(* PalettedBlocks::shift_indexes *)
shift_indexes(pb, index) ==
    [pb EXCEPT !.blocks =
        [i \in DOMAIN pb.blocks |->
            IF i \in pb.placed_blocks /\ deconstruct_block_val(pb.blocks[i])[1] > index
            THEN construct_block_val(deconstruct_block_val(pb.blocks[i])[1] - 1,
                                     deconstruct_block_val(pb.blocks[i])[2])
            ELSE pb.blocks[i]]]

(* PalettedBlocks::get_raw: the palette entry of a cell; a handle or an    *)
(* index past its table panics.                                            *)
get_raw(pb, coords) ==
    LET block_index == to_index(pb.bottom_y, pb.width, coords)
        val == deconstruct_block_val(CellValue(pb, block_index))
    IN IF block_index < 0 \/ block_index >= pb.cells \/ CellValue(pb, block_index) = Vacant
       THEN [result |-> "None", tag |-> AirCompound]
       ELSE IF \/ val[1] >= Len(pb.palette)
               \/ val[2] >= Len(pb.palette[val[1] + 1].entries)
            THEN [result |-> "panic", tag |-> AirCompound]
            ELSE [result |-> "Some", tag |-> PaletteAt(pb.palette[val[1] + 1].entries, val[2])]

(* PalettedBlocks::get *)
PalGet(pb, coords) ==
    [result |-> get_raw(pb, coords).result, block |-> from_compound(get_raw(pb, coords).tag)]

(* remove_block without the test for a vacant cell. *)
remove_unchecked(pb, coords) ==
    LET block_index == to_index(pb.bottom_y, pb.width, coords)
    IN [pb |-> [pb EXCEPT !.palette = IF @ = <<>> THEN @ ELSE Tail(@),
                          !.placed_blocks = @ \ {block_index}],
        outcomes |-> {[err |-> "Ok", block |-> NewBlock(Namespaced(AirName))]}]

(* What remove_block returns for the block it reads from a palette. *)
Removed(entries, palette_index) ==
    IF palette_index < Len(entries)
    THEN [err |-> "Ok", block |-> from_compound(PaletteAt(entries, palette_index))]
    ELSE [err |-> "OutOfBounds", block |-> NewBlock(Namespaced(AirName))]

Failed(err) == [err |-> err, block |-> NewBlock(Namespaced(AirName))]

(* PalettedBlocks::remove_block.  The cell is vacated, and the handle      *)
(* loses a reference or, at one reference, leaves the table with the later *)
(* handles shifted down.  The block is then read through palette_entry,    *)
(* the pointer to the handle's slot taken before the removal: the slot     *)
(* holds the next handle after a removal, and lies past the end of the     *)
(* table when the last handle was removed, where the read may find any of  *)
(* the table's former entries.                                             *)
remove_block(pb, coords) ==
    LET block_index == to_index(pb.bottom_y, pb.width, coords)
        combined_indexes == CellValue(pb, block_index)
        palette == deconstruct_block_val(combined_indexes)[1]
        palette_index == deconstruct_block_val(combined_indexes)[2]
        vacated == [pb EXCEPT !.blocks = SetCell(@, block_index, Vacant),
                              !.placed_blocks = @ \ {block_index}]
        removed == shift_indexes([vacated EXCEPT !.palette = RemoveAt(@, palette)], palette)
    IN IF block_index < 0 \/ block_index >= pb.cells
       THEN [pb |-> pb, outcomes |-> {Failed("OutOfBounds")}]
       ELSE IF combined_indexes = Vacant
       THEN [pb |-> pb, outcomes |-> {Failed("UnsetPaletteBlock")}]
       ELSE IF palette >= Len(pb.palette)
       THEN [pb |-> vacated, outcomes |-> {Failed("InvalidPaletteIndex")}]
       ELSE IF pb.palette[palette + 1].refs = 0
       THEN [pb |-> vacated, outcomes |-> {Failed("panic")}]
       ELSE IF pb.palette[palette + 1].refs = 1
            THEN [pb |-> removed,
                  outcomes |->
                     IF palette < Len(removed.palette)
                     THEN {Removed(removed.palette[palette + 1].entries, palette_index)}
                     ELSE { Removed(pb.palette[k].entries, palette_index) :
                               k \in 1 .. Len(pb.palette) }]
            ELSE [pb |-> [vacated EXCEPT !.palette[palette + 1].refs = @ - 1],
                  outcomes |-> {Removed(pb.palette[palette + 1].entries, palette_index)}]

(* The pairs an iteration yields: the placed cells in ascending order,     *)
(* ending at the first cell whose palette entry is missing.                *)
RECURSIVE IterFrom(_, _)
IterFrom(pb, todo) ==
    IF todo = {} THEN <<>>
    ELSE LET index == SetMin(todo)
             coords == to_coords(pb.bottom_y, pb.width, index)
             val == deconstruct_block_val(CellValue(pb, index))
         IN IF \/ val[1] >= Len(pb.palette)
               \/ val[2] >= Len(pb.palette[val[1] + 1].entries)
            THEN <<>>
            ELSE <<[coordinates |-> coords,
                    block |-> from_compound(
                                PaletteAt(pb.palette[val[1] + 1].entries, val[2]))]>>
                 \o IterFrom(pb, todo \ {index})

IntoIter(pb) == IterFrom(pb, pb.placed_blocks)

---------------------------------------------------------------------------
(* The region: its coordinates, blocks and buffers used as inputs.         *)

Stone == NewBlock(Namespaced(StoneName))

Dirt == NewBlock(Id(<<"dirt">>))

Blocks == {Stone, Dirt}

(* Region-local coordinates.  cHigh and cLow lie in chunk (0, 0), in       *)
(* different sections; cNear shares the section of cHigh; cFar and cBelow  *)
(* lie in chunk (1, 0), in section 0 and in the section under it.          *)
cHigh == <<0, WorldEnd + 2 * WorldStart, 0>>

cNear == <<1, WorldEnd + 2 * WorldStart, 0>>

cLow == <<0, WorldStart, 1>>

cFar == <<WIDTH, 0, 0>>

cBelow == <<WIDTH, -1, 0>>

(* The set_block calls a caller makes. *)
Edits ==
    { <<cHigh, Stone>>, <<cHigh, Dirt>>, <<cNear, Dirt>>, <<cLow, Dirt>>,
      <<cFar, Dirt>>, <<cBelow, Stone>> }

(* Every coordinate of the region inside the world height. *)
AllCoordinates ==
    (0 .. (BLOCKS_PER_REGION - 1)) \X (WorldStart .. WorldEnd) \X (0 .. (BLOCKS_PER_REGION - 1))

(* set.rs 34-37: the chunk of a region-local coordinate, each index cast   *)
(* to u8.                                                                  *)
ChunkOf(c) == <<(c[1] \div WIDTH) % (2 ^ 8), (c[3] \div WIDTH) % (2 ^ 8)>>

(* set.rs 42-46: the chunk-local coordinate handed to the chunk. *)
LocalOf(c) == <<AndChunkOp(c[1]), c[2], AndChunkOp(c[3])>>

(* The coordinates of one section of one chunk. *)
SectionCoordinates(key, section_y) ==
    { c \in AllCoordinates : ChunkOf(c) = key /\ SectionOf(c[2]) = section_y }

(* The chunk map's lookup for writing: whether the region holds the chunk. *)
get_chunk_mut(cs, key) == key \in DOMAIN cs

(* Region::get_block *)
RegionGetBlock(cs, c) == ChunkGetBlock(cs[ChunkOf(c)].nbt, c[1], c[2], c[3])

(* The pending edits of a chunk at a chunk-local coordinate. *)
PendingAt(chunk, local) ==
    IF SectionOf(local[2]) \in DOMAIN chunk.pending_blocks
    THEN SelectSeq(chunk.pending_blocks[SectionOf(local[2])],
                   LAMBDA e : e.coordinates = local)
    ELSE <<>>

HasPending(chunk, local) == PendingAt(chunk, local) # <<>>

(* Buffers a caller hands to set_internal_block_buffer. *)
Buffers ==
    { EmptyBuffer,
      [s \in {SectionOf(cHigh[2])} |-> <<[coordinates |-> LocalOf(cHigh), block |-> Stone]>>] }

(* Section ranges a caller hands to allocate_block_buffer. *)
SectionRanges == { SectionYs }

(* One entry of the history of region calls. *)
Call(op, c, block, result, fresh) ==
    [op |-> op, c |-> c, block |-> block, result |-> result, fresh |-> fresh]

NoCall == Call("none", <<0, 0, 0>>, Stone, "Ok", FALSE)

(* The newest call first; the three newest are kept. *)
Record(call) == SubSeq(<<call>> \o hist, 1, Min(3, Len(hist) + 1))

NoTask == [key |-> <<0, 0>>, err |-> "none", written |-> {},
           before |-> NewChunkData(get_empty_chunk), accepted |-> {}]

NoAccepted == [k \in ChunkKeys |-> {}]

NoSerial == [k \in ChunkKeys |-> get_empty_chunk]

(* The bulk query: no query made yet. *)
FoundIdle == [pc |-> "idle", query |-> <<>>, err |-> "Ok", overwritten |-> FALSE,
              held |-> {}, shifted |-> FALSE,
              block |-> NewBlock(Namespaced(AirName)),
              pb |-> NewPalettedBlocks(WorldStart, WorldEnd - WorldStart + 1,
                                       BLOCKS_PER_REGION)]

(* The comparison of blocks: no blocks chosen yet. *)
EqIdle == [pc |-> "idle", a |-> Stone, b |-> Stone, tag |-> StoneCompound,
           block_eq |-> FALSE, compound_eq |-> FALSE]

(* No biome cell is being converted. *)
BcIdle == [pc |-> "idle", cell |-> <<<<0, 0>>, 0, <<0, 0, 0>>>>,
           result |-> "Ok", coords |-> <<0, 0, 0>>, back |-> <<<<0, 0>>, 0, <<0, 0, 0>>>>]

(* No palette is being cleaned. *)
GcIdle == [pc |-> "idle", indexes |-> ZeroIndexes(0), count |-> 0, palette |-> <<>>,
           out |-> [indexes |-> ZeroIndexes(0), palette |-> <<>>]]

(* No bit count is being computed. *)
BwIdle == [pc |-> "idle", len |-> 0, block |-> 0, biome |-> 0,
           block_done |-> FALSE, biome_done |-> FALSE]

(***************************************************************************)
(* Parallel writers.  Each thread of the pool takes the exclusive handle   *)
(* of a chunk from the chunk map, calls set_block on it and drops the      *)
(* handle; a thread that asks for a chunk whose handle is out waits.       *)
(* par.log is the sequence of the finished calls.                          *)
(***************************************************************************)

MaxThreads == 2

Threads == 1 .. MaxThreads

ParIdle ==
    [threads |-> [t \in Threads |-> [pc |-> "idle", c |-> <<0, 0, 0>>, block |-> Stone]],
     log |-> <<>>]


CodecIdle == [pc |-> "idle", N |-> 0, bit_count |-> 0, n |-> 0, fill |-> 0,
              xs |-> ZeroIndexes(0), longs |-> <<>>, out |-> ZeroIndexes(0), count |-> 0]

---------------------------------------------------------------------------
(* The state machine of a region whose chunks all exist.                   *)

Init ==
    /\ \E far \in {get_empty_chunk, LoadedChunk(FALSE), LoadedChunk(TRUE)} :
          chunks = [k \in ChunkKeys |->
                       NewChunkData(IF k = ChunkOf(cFar) THEN far ELSE get_empty_chunk)]
    /\ flush = [pc |-> "idle", todo |-> {}, err |-> "Ok", failed |-> {}, succeeded |-> {},
                before |-> [k \in ChunkKeys |-> EmptyBuffer],
                serial |-> NoSerial]
    /\ hist = <<NoCall>>
    /\ task = NoTask
    /\ accepted = NoAccepted
    /\ calls = 0
    /\ bw = BwIdle
    /\ gc = GcIdle
    /\ bc = BcIdle
    /\ found = FoundIdle
    /\ eq = EqIdle
    /\ par = ParIdle
    /\ refs = NoRefs
    /\ bio = BioInit
    /\ config = DefaultConfig
    /\ codec = CodecIdle

(* Region::set_block *)
SetBlock(c, block) ==
    LET key == ChunkOf(c)
        local == LocalOf(c)
        r == ChunkSetBlock(chunks[key], local[1], local[2], local[3], block)
    IN /\ flush.pc = "idle"
       /\ calls < MaxCalls
       /\ IF get_chunk_mut(chunks, key)
          THEN /\ chunks' = [chunks EXCEPT ![key] = r.chunk]
               /\ hist' = Record(Call("set_block", c, block, r.result,
                                      ~HasPending(chunks[key], local)))
               /\ accepted' = IF r.result = "Some"
                              THEN [accepted EXCEPT ![key] = @ \cup {<<c, block>>}]
                              ELSE accepted
          ELSE /\ hist' = Record(Call("set_block", c, block, "NoChunk", FALSE))
               /\ UNCHANGED <<chunks, accepted, bio, refs, par, eq, found, bc, gc, bw>>
       /\ calls' = calls + 1
       /\ UNCHANGED <<flush, task, codec, config, bio, refs, par, eq, found, bc, gc, bw>>

(* fill_region.rs: Region::set_block on every coordinate of a section.     *)
(* st carries the chunk, the accepted edits and "None" once a call         *)
(* reported a duplicate.                                                   *)
RECURSIVE FillLoop(_, _, _)
FillLoop(todo, block, st) ==
    IF todo = {} THEN st
    ELSE LET c == CHOOSE d \in todo :
                    \A e \in todo : <<d[2], d[3], d[1]>> = <<e[2], e[3], e[1]>>
                                    \/ d[2] < e[2]
                                    \/ (d[2] = e[2] /\ d[3] < e[3])
                                    \/ (d[2] = e[2] /\ d[3] = e[3] /\ d[1] < e[1])
             local == LocalOf(c)
             r == ChunkSetBlock(st.chunk, local[1], local[2], local[3], block)
         IN IF r.result = "Some"
            THEN FillLoop(todo \ {c}, block,
                     [chunk |-> r.chunk,
                      accepted |-> st.accepted \cup {<<c, block>>},
                      result |-> st.result])
            ELSE FillLoop(todo \ {c}, block,
                     [chunk |-> r.chunk, accepted |-> st.accepted, result |-> "None"])

FillSection(key, section_y, block) ==
    LET done == FillLoop(SectionCoordinates(key, section_y), block,
                         [chunk |-> chunks[key], accepted |-> accepted[key], result |-> "Some"])
    IN /\ flush.pc = "idle"
       /\ calls < MaxCalls
       /\ chunks' = [chunks EXCEPT ![key] = done.chunk]
       /\ hist' = Record(Call("fill_section", <<key[1] * WIDTH, section_y * WIDTH, key[2] * WIDTH>>,
                               block, done.result, FALSE))
       /\ accepted' = [accepted EXCEPT ![key] = done.accepted]
       /\ calls' = calls + 1
       /\ UNCHANGED <<flush, task, codec, config, bio, refs, par, eq, found, bc, gc, bw>>

(* Region::allocate_block_buffer over the chunks xs \X zs *)
AllocateBlockBuffer(xs, zs, sections) ==
    /\ flush.pc = "idle"
    /\ calls < MaxCalls
    /\ calls' = calls + 1
    /\ chunks' = [k \in ChunkKeys |->
                    IF k[1] \in xs /\ k[2] \in zs
                    THEN set_internal_block_buffer(chunks[k], [y \in sections |-> <<>>])
                    ELSE chunks[k]]
    /\ hist' = Record(Call("allocate_block_buffer", <<0, 0, 0>>, Stone, "Ok", FALSE))
    /\ accepted' = [k \in ChunkKeys |-> IF k[1] \in xs /\ k[2] \in zs THEN {} ELSE accepted[k]]
    /\ UNCHANGED <<flush, task, codec, config, bio, refs, par, eq, found, bc, gc, bw>>

(* ChunkData::set_internal_block_buffer on the chunk of the region *)
SetInternalBlockBuffer(key, buffer) ==
    /\ flush.pc = "idle"
    /\ calls < MaxCalls
    /\ calls' = calls + 1
    /\ chunks' = [chunks EXCEPT ![key] = set_internal_block_buffer(@, buffer)]
    /\ hist' = Record(Call("set_internal_block_buffer", <<0, 0, 0>>, Stone, "Ok", FALSE))
    /\ accepted' = [accepted EXCEPT ![key] = {}]
    /\ UNCHANGED <<flush, task, codec, config, bio, refs, par, eq, found, bc, gc, bw>>

(* The chunk keys in ascending order. *)
RECURSIVE KeysInOrder(_)
KeysInOrder(keys) ==
    IF keys = {} THEN <<>>
    ELSE LET first == CHOOSE k \in keys :
                         \A o \in keys : k[1] < o[1] \/ (k[1] = o[1] /\ k[2] <= o[2])
         IN <<first>> \o KeysInOrder(keys \ {first})

(* The dirty chunks flushed one after another by ChunkData::write_blocks,  *)
(* the first error ending the loop: the NBT of every chunk afterwards.     *)
RECURSIVE SerialLoop(_, _, _, _, _)
SerialLoop(order, i, nbts, cs, cfgrefs) ==
    IF i > Len(order) THEN nbts
    ELSE LET r == ChunkWriteBlocks(cs[order[i]], cfgrefs[1], cfgrefs[2][order[i]])
         IN IF r.err = "Ok"
            THEN SerialLoop(order, i + 1, [nbts EXCEPT ![order[i]] = r.chunk.nbt], cs, cfgrefs)
            ELSE [nbts EXCEPT ![order[i]] = r.chunk.nbt]

SerialFlush(cs, cfg, rs) ==
    SerialLoop(KeysInOrder({ k \in ChunkKeys : cs[k].dirty_blocks }), 1,
               [k \in ChunkKeys |-> cs[k].nbt], cs, <<cfg, rs>>)

(* A faulty flush that hands every chunk of the region to the pool,        *)
(* dirty or not.                                                           *)
WriteBlocksBeginAll ==
    /\ flush.pc = "idle"
    /\ calls < MaxCalls
    /\ calls' = calls + 1
    /\ flush' = [pc |-> "running",
                 todo |-> ChunkKeys,
                 err |-> "Ok", failed |-> {}, succeeded |-> {},
                 before |-> [k \in ChunkKeys |-> chunks[k].pending_blocks],
                 serial |-> SerialFlush(chunks, config, refs)]
    /\ hist' = Record(Call("write_blocks", <<0, 0, 0>>, Stone, "Running", FALSE))
    /\ UNCHANGED <<chunks, task, accepted, codec, config, bio, refs, par, eq, found, bc, gc, bw>>

(* Region::write_blocks: the dirty chunks are handed to the thread pool. *)
WriteBlocksBegin ==
    /\ flush.pc = "idle"
    /\ calls < MaxCalls
    /\ calls' = calls + 1
    /\ flush' = [pc |-> "running",
                 todo |-> { k \in ChunkKeys : chunks[k].dirty_blocks },
                 err |-> "Ok", failed |-> {}, succeeded |-> {},
                 before |-> [k \in ChunkKeys |-> chunks[k].pending_blocks],
                 serial |-> SerialFlush(chunks, config, refs)]
    /\ hist' = Record(Call("write_blocks", <<0, 0, 0>>, Stone, "Running", FALSE))
    /\ UNCHANGED <<chunks, task, accepted, codec, config, bio, refs, par, eq, found, bc, gc, bw>>

(* The region after the task on chunk key returned r. *)
FlushAfter(key, err) ==
    [flush EXCEPT
        !.todo = @ \ {key},
        !.err = IF @ = "Ok" THEN err ELSE @,
        !.failed = IF err = "Ok" THEN @ ELSE @ \cup {key},
        !.succeeded = IF err = "Ok" THEN @ \cup {key} ELSE @]

TaskDone(key, r) ==
    /\ chunks' = [chunks EXCEPT ![key] = r.chunk]
    /\ flush' = FlushAfter(key, r.err)
    /\ task' = [key |-> key, err |-> r.err, written |-> r.written,
                before |-> [chunks[key] EXCEPT !.nbt = get_empty_chunk],
                accepted |-> accepted[key]]
    /\ accepted' = IF r.err = "Ok" THEN [accepted EXCEPT ![key] = {}] ELSE accepted

(* A pool that reports a task as done without running it. *)
WriteChunkLost(key) ==
    /\ flush.pc = "running"
    /\ key \in flush.todo
    /\ TaskDone(key, [chunk |-> chunks[key], err |-> "Ok", written |-> {}])
    /\ UNCHANGED <<hist, calls, codec, config, bio, refs, par, eq, found, bc, gc, bw>>

(* One task of the pool: ChunkData::write_blocks on a dirty chunk. *)
WriteChunk(key) ==
    /\ flush.pc = "running"
    /\ key \in flush.todo
    /\ TaskDone(key, ChunkWriteBlocks(chunks[key], config, refs[key]))
    /\ UNCHANGED <<hist, calls, codec, config, bio, refs, par, eq, found, bc, gc, bw>>

(* A faulty return that waits for every task to return Ok: after a failed  *)
(* task the flush never returns.                                           *)
WriteBlocksEndWaits ==
    /\ flush.pc = "running"
    /\ flush.todo = {} /\ flush.err = "Ok"
    /\ flush' = [flush EXCEPT !.pc = "idle", !.todo = {}]
    /\ hist' = [hist EXCEPT ![1].result = flush.err]
    /\ UNCHANGED <<chunks, task, accepted, calls, codec, config, bio, refs, par, eq, found, bc, gc, bw>>

(* try_for_each returns: every task ran, or one failed and the pool        *)
(* dropped the tasks it had not started.                                   *)
WriteBlocksEnd ==
    /\ flush.pc = "running"
    /\ flush.todo = {} \/ flush.err # "Ok"
    /\ flush' = [flush EXCEPT !.pc = "idle", !.todo = {}]
    /\ hist' = [hist EXCEPT ![1].result = flush.err]
    /\ UNCHANGED <<chunks, task, accepted, calls, codec, config, bio, refs, par, eq, found, bc, gc, bw>>

XRanges == { 0 .. 0, 0 .. (REGION_SIZE - 1) }

Next ==
    \/ \E e \in Edits : SetBlock(e[1], e[2])
    \/ FillSection(ChunkOf(cHigh), SectionOf(cHigh[2]), Dirt)
    \/ \E xs \in XRanges, sections \in SectionRanges :
          AllocateBlockBuffer(xs, 0 .. (REGION_SIZE - 1), sections)
    \/ \E buffer \in Buffers : SetInternalBlockBuffer(ChunkOf(cHigh), buffer)
    \/ WriteBlocksBegin
    \/ \E key \in ChunkKeys : WriteChunk(key)
    \/ WriteBlocksEnd

Spec == Init /\ [][Next]_vars

---------------------------------------------------------------------------
(* Properties of the region.                                               *)

(* Two blocks name the same block state: the namespaced ids agree and the  *)
(* properties agree, no properties and an empty map being the same.        *)
SameBlock(a, b) ==
    /\ into_namespaced(a.name) = into_namespaced(b.name)
    /\ a.properties.map = b.properties.map

Reads(cs, c, block) ==
    RegionGetBlock(cs, c).ok /\ SameBlock(RegionGetBlock(cs, c).block, block)

(* Region::write_blocks has just returned with this result. *)
WriteReturned(result) ==
    flush.pc = "idle" /\ hist[1].op = "write_blocks" /\ hist[1].result = result

WriteFailed ==
    flush.pc = "idle" /\ hist[1].op = "write_blocks" /\ hist[1].result \notin {"Ok", "Running"}

(* The task on chunk task.key has just returned Ok. *)
TaskSucceeded ==
    task.err = "Ok" /\ task.key \in flush.succeeded /\ hist[1].op = "write_blocks"

HasEdits(chunk) == \E s \in DOMAIN chunk.pending_blocks : chunk.pending_blocks[s] # <<>>

(* C1: a set_block(c, B) on a coordinate with no pending edit, followed by *)
(* a successful Region::write_blocks, makes get_block(c) return a block    *)
(* equal to B.                                                             *)
C1_RoundTrip ==
    (WriteReturned("Ok") /\ Len(hist) >= 2 /\ hist[2].op = "set_block" /\ hist[2].fresh)
        => Reads(chunks, hist[2].c, hist[2].block)

(* C2: when set_block(c, B1) is directly followed by set_block(c, B2), the *)
(* second call returns None and the buffer holds exactly one entry for c,  *)
(* carrying B1; after a successful write_blocks get_block(c) equals B1.    *)
C2_FirstWriteWins ==
    /\ (Len(hist) >= 2 /\ hist[1].op = "set_block" /\ hist[2].op = "set_block"
            /\ hist[1].c = hist[2].c)
          => /\ hist[1].result = "None"
             /\ Len(PendingAt(chunks[ChunkOf(hist[1].c)], LocalOf(hist[1].c))) = 1
             /\ BlockEq(PendingAt(chunks[ChunkOf(hist[1].c)], LocalOf(hist[1].c))[1].block,
                        hist[2].block)
    /\ (WriteReturned("Ok") /\ Len(hist) >= 3 /\ hist[2].op = "set_block"
            /\ hist[3].op = "set_block" /\ hist[2].c = hist[3].c)
          => Reads(chunks, hist[3].c, hist[3].block)

(* The indices a section stores, as find_blocks decodes them. *)
StoredIndexes(state) ==
    DecodeData(BLOCK_DATA_LEN, ZeroIndexes(BLOCK_DATA_LEN),
               get_block_bit_count(Len(state.palette)), state.data)

(* Every stored index points into the palette and every palette entry is   *)
(* referenced by an index.                                                 *)
PaletteSound(state) ==
    /\ \A i \in 0 .. (StoredIndexes(state).index - 1) :
          /\ StoredIndexes(state).indexes[i] >= 0
          /\ StoredIndexes(state).indexes[i] < Len(state.palette)
    /\ \A p \in 0 .. (Len(state.palette) - 1) :
          \E i \in 0 .. (StoredIndexes(state).index - 1) : StoredIndexes(state).indexes[i] = p

SectionsOf(key) == { chunks[key].nbt.sections[i] : i \in DOMAIN chunks[key].nbt.sections }

(* C3 as stated: after a successful write_blocks every section of the      *)
(* chunk has a sound palette.                                              *)
C3_EverySectionSound ==
    task.err = "Ok" => \A section \in SectionsOf(task.key) : PaletteSound(section.block_states)

(* C3: after a successful write_blocks every section whose pending bucket  *)
(* the flush wrote has a sound palette: every stored index is below        *)
(* palette.len() and every palette entry is referenced.                    *)
C3_WrittenSectionsSound ==
    task.err = "Ok" =>
        \A section \in SectionsOf(task.key) :
            section.Y \in task.written => PaletteSound(section.block_states)

C3_Witness ==
    /\ task.err = "Ok"
    /\ \E section \in SectionsOf(task.key) :
          section.Y \in task.written /\ Len(section.block_states.palette) >= 2

(* One task of the pool ran in this step, on the chunk it took off todo. *)
TaskStepOn(key) ==
    flush.pc = "running" /\ flush'.pc = "running" /\ key \in flush.todo /\ key \notin flush'.todo

(* The coordinates of a chunk whose section has a pending bucket. *)
BucketCoordinates(key) ==
    { c \in AllCoordinates :
        ChunkOf(c) = key /\ SectionOf(c[2]) \in DOMAIN chunks[key].pending_blocks }

Canonical(state) == (Len(state.palette) = 1) <=> ~state.data.present

SectionAt(key, section_y) ==
    CHOOSE section \in SectionsOf(key) : section.Y = section_y

(* C5: after a flush, a written section has no data tag exactly when its   *)
(* palette has length 1; and a section whose every coordinate received B   *)
(* has the palette [B] and no data.                                        *)
C5_Canonical ==
    /\ task.err = "Ok" =>
          \A section \in SectionsOf(task.key) :
              section.Y \in task.written => Canonical(section.block_states)
    /\ (WriteReturned("Ok") /\ Len(hist) >= 2 /\ hist[2].op = "fill_section"
            /\ hist[2].result = "Some")
          => /\ SectionAt(ChunkOf(hist[2].c), SectionOf(hist[2].c[2])).block_states.palette
                   = <<to_compound(hist[2].block)>>
             /\ ~SectionAt(ChunkOf(hist[2].c), SectionOf(hist[2].c[2])).block_states.data.present

(* A section was filled, every call being accepted, and then flushed. *)
C5_Witness ==
    /\ WriteReturned("Ok") /\ Len(hist) >= 2
    /\ hist[2].op = "fill_section" /\ hist[2].result = "Some"
    /\ SectionOf(hist[2].c[2]) \in task.written

(* The chunk-local coordinates of the world height. *)
LocalCoordinates ==
    (0 .. (WIDTH - 1)) \X (WorldStart .. WorldEnd) \X (0 .. (WIDTH - 1))

(* C7: in every reachable state the seen_blocks bit of a coordinate is set *)
(* if and only if the bucket of its section holds a pending edit for it.   *)
C7_SeenIffPending ==
    \A key \in ChunkKeys : \A local \in LocalCoordinates :
        (get_block_index(local[1], local[2], local[3]) \in chunks[key].seen_blocks)
            <=> HasPending(chunks[key], local)

(* C8: in every reachable state dirty_blocks is set if and only if the     *)
(* pending block buffer holds at least one edit.                           *)
C8_DirtyIffEdits ==
    \A key \in ChunkKeys : chunks[key].dirty_blocks <=> HasEdits(chunks[key])

(* C9: after a successful ChunkData::write_blocks the chunk has no pending *)
(* edit, no seen bit and no dirty flag, and every edit set_block accepted  *)
(* before the flush is read back by get_block.                             *)
C9_Drained ==
    TaskSucceeded =>
        /\ ~HasEdits(chunks[task.key])
        /\ chunks[task.key].seen_blocks = {}
        /\ ~chunks[task.key].dirty_blocks
        /\ \A e \in task.accepted : Reads(chunks, e[1], e[2])

(* C10: when Region::write_blocks returns an error, every chunk whose task *)
(* failed still holds every pending edit it had before the flush, and      *)
(* every chunk whose task succeeded has buffer, bitset and flag cleared.   *)
C10_BestEffort ==
    WriteFailed =>
        /\ \A key \in flush.failed :
              \A s \in DOMAIN flush.before[key] :
                 /\ s \in DOMAIN chunks[key].pending_blocks
                 /\ chunks[key].pending_blocks[s] = flush.before[key][s]
        /\ \A key \in flush.succeeded :
              /\ ~HasEdits(chunks[key])
              /\ chunks[key].seen_blocks = {}
              /\ ~chunks[key].dirty_blocks

---------------------------------------------------------------------------
(* The codec on its own: encode_data followed by decode_data, on the       *)
(* section sizes and bit widths the callers use.                           *)

BlockBitCounts == 0 .. 12

BiomeBitCounts == 0 .. 6

(* The arrays handed to encode_data: an ascending run, the largest value   *)
(* everywhere, and a stride of three, all reduced to bit_count bits.       *)
Patterns == { <<0, 1>>, <<-1, 0>>, <<1, 3>> }

PatternArray(N, bit_count, pattern) ==
    [i \in 0 .. (N - 1) |-> (pattern[1] + i * pattern[2]) % (2 ^ bit_count)]

CodecInputs ==
    { [pc |-> "input", N |-> N, bit_count |-> b, n |-> n, fill |-> fill,
       xs |-> PatternArray(N, b, pattern), longs |-> <<>>,
       out |-> [i \in 0 .. (N - 1) |-> fill], count |-> 0] :
          N \in {BLOCK_DATA_LEN}, b \in BlockBitCounts, n \in 0 .. BLOCK_DATA_LEN,
          fill \in {0, 1}, pattern \in Patterns }
    \cup
    { [pc |-> "input", N |-> N, bit_count |-> b, n |-> n, fill |-> fill,
       xs |-> PatternArray(N, b, pattern), longs |-> <<>>,
       out |-> [i \in 0 .. (N - 1) |-> fill], count |-> 0] :
          N \in {BIOME_DATA_LEN}, b \in BiomeBitCounts, n \in 0 .. BIOME_DATA_LEN,
          fill \in {0, 1}, pattern \in Patterns }

CodecInit ==
    /\ codec \in CodecInputs
    /\ chunks = [k \in ChunkKeys |-> NewChunkData(get_empty_chunk)]
    /\ flush = [pc |-> "idle", todo |-> {}, err |-> "Ok", failed |-> {}, succeeded |-> {},
                before |-> [k \in ChunkKeys |-> EmptyBuffer],
                serial |-> NoSerial]
    /\ hist = <<NoCall>>
    /\ task = NoTask
    /\ accepted = NoAccepted
    /\ calls = 0
    /\ bw = BwIdle
    /\ gc = GcIdle
    /\ bc = BcIdle
    /\ found = FoundIdle
    /\ eq = EqIdle
    /\ par = ParIdle
    /\ refs = NoRefs
    /\ bio = BioInit
    /\ config = DefaultConfig

(* encode_data(bit_count, &xs, n, state) *)
Encode ==
    /\ codec.pc = "input"
    /\ codec' = [codec EXCEPT !.pc = "encoded",
                              !.longs = EncodeData(codec.bit_count, codec.xs, codec.n)]
    /\ UNCHANGED <<chunks, flush, hist, task, accepted, calls, config, bio, refs, par, eq, found, bc, gc, bw>>

(* The codec after decode_data returned r. *)
Decoded(r) == [codec EXCEPT !.pc = "decoded", !.out = r.indexes, !.count = r.index]

(* decode_data(&mut out, bit_count, state.long_array("data")) *)
Decode ==
    /\ codec.pc = "encoded"
    /\ codec' = Decoded(DecodeData(codec.N, codec.out, codec.bit_count, SomeData(codec.longs)))
    /\ UNCHANGED <<chunks, flush, hist, task, accepted, calls, config, bio, refs, par, eq, found, bc, gc, bw>>

CodecNext == Encode \/ Decode

CodecSpec == CodecInit /\ [][CodecNext]_vars

(* The indices one long holds. *)
PerLong(bit_count) == LONG_BITS \div bit_count

(* n rounded up to whole longs, and never more than N. *)
WholeLongs(N, bit_count, n) ==
    IF n = 0 THEN 0
    ELSE IF bit_count = 0 THEN N
    ELSE Min(N, PerLong(bit_count) * ((n + PerLong(bit_count) - 1) \div PerLong(bit_count)))

PrefixDecoded ==
    \A i \in 0 .. (codec.n - 1) : codec.out[i] = codec.xs[i]

(* C6 as stated: decoding what encode_data(b, xs, n) stored yields the     *)
(* count n and indices equal to xs[0..n].                                  *)
C6_CountIsN ==
    codec.pc = "decoded" => (codec.count = codec.n /\ PrefixDecoded)

(* C6: decoding what encode_data(b, xs, n) stored yields indices equal to  *)
(* xs[0..n]; the count is n rounded up to whole longs and capped at N, the *)
(* padding decodes to zero and the rest of the array is left as it was.    *)
C6_RoundTrip ==
    codec.pc = "decoded" =>
        /\ PrefixDecoded
        /\ codec.count = WholeLongs(codec.N, codec.bit_count, codec.n)
        /\ \A i \in codec.n .. (codec.count - 1) : codec.out[i] = 0
        /\ \A i \in codec.count .. (codec.N - 1) : codec.out[i] = codec.fill

(* A partial array was decoded: the count exceeds n, values were non-zero. *)
C6_Witness ==
    /\ codec.pc = "decoded"
    /\ codec.n > 0 /\ codec.n < codec.count /\ codec.count < codec.N
    /\ \E i \in 0 .. (codec.n - 1) : codec.out[i] > 1

(***************************************************************************)
(* Chunks that must not be written: the validity check of write_blocks.    *)
(***************************************************************************)

(* A chunk the game has not finished generating. *)
ProtoChunk == [LoadedChunk(FALSE) EXCEPT !.Status = <<"minecraft", ":", "features">>]

(* A fully generated chunk saved by a version before MIN_DATA_VERSION. *)
OldChunk == [LoadedChunk(FALSE) EXCEPT !.DataVersion = MIN_DATA_VERSION - 1]

InvalidChunks == {ProtoChunk, OldChunk}

(* A region opened under any Config whose chunk of cFar is not writable. *)
ValidityInit ==
    /\ \E far \in InvalidChunks :
          chunks = [k \in ChunkKeys |->
                       NewChunkData(IF k = ChunkOf(cFar) THEN far ELSE get_empty_chunk)]
    /\ flush = [pc |-> "idle", todo |-> {}, err |-> "Ok", failed |-> {}, succeeded |-> {},
                before |-> [k \in ChunkKeys |-> EmptyBuffer],
                serial |-> NoSerial]
    /\ hist = <<NoCall>>
    /\ task = NoTask
    /\ accepted = NoAccepted
    /\ calls = 0
    /\ bw = BwIdle
    /\ gc = GcIdle
    /\ bc = BcIdle
    /\ found = FoundIdle
    /\ eq = EqIdle
    /\ par = ParIdle
    /\ refs = NoRefs
    /\ bio = BioInit
    /\ config \in Configs
    /\ codec = CodecIdle

ValidityNext ==
    \/ \E e \in Edits : SetBlock(e[1], e[2])
    \/ WriteBlocksBegin
    \/ \E key \in ChunkKeys : WriteChunk(key)
    \/ WriteBlocksEnd

ValiditySpec == ValidityInit /\ [][ValidityNext]_vars

Writable(nbt) == nbt.Status = FullStatus /\ nbt.DataVersion >= MIN_DATA_VERSION

(* C11: write_blocks on a chunk whose Status is not "minecraft:full" or    *)
(* whose DataVersion is below 2860 returns NotFullyGenerated or            *)
(* UnsupportedVersion, under every configuration, and leaves the chunk's   *)
(* NBT and its pending buffer unchanged.                                   *)
C11_InvalidChunkRejected ==
    [][ \A key \in ChunkKeys :
           (TaskStepOn(key) /\ ~Writable(chunks[key].nbt)) =>
              /\ task'.err = IF chunks[key].nbt.Status # FullStatus
                             THEN "NotFullyGenerated" ELSE "UnsupportedVersion"
              /\ chunks'[key].nbt = chunks[key].nbt
              /\ chunks'[key].pending_blocks = chunks[key].pending_blocks
      ]_vars

(***************************************************************************)
(* Coordinates outside the region.                                         *)
(***************************************************************************)

(* One block past the region's last chunk. *)
cOut == <<BLOCKS_PER_REGION, 0, 0>>

(* The first x whose chunk index no longer fits a u8. *)
cWrap == <<WIDTH * (2 ^ 8), 0, 0>>

(* The same for z, one block further. *)
cWrapZ == <<0, 0, WIDTH * (2 ^ 8) + 1>>

OutCoordinates == {cOut, cWrap, cWrapZ}

(* PalettedBlocks::new: the number of cells of a region-wide result set. *)
RegionCells == BLOCKS_PER_REGION * (WorldEnd - WorldStart + 1) * BLOCKS_PER_REGION

(* Region::get_block through get_blocks: the chunk map is asked for the    *)
(* u8 chunk index, find_blocks stores the block at to_index of the         *)
(* coordinate (an index past the cells panics) and get reads it back.      *)
GetBlock(cs, c) ==
    IF ChunkOf(c) \notin DOMAIN cs
    THEN [result |-> "NoChunk", block |-> NewBlock(Namespaced(AirName))]
    ELSE IF ~ChunkGetBlock(cs[ChunkOf(c)].nbt, c[1], c[2], c[3]).ok
         THEN [result |-> "panic", block |-> NewBlock(Namespaced(AirName))]
         ELSE IF to_index(WorldStart, BLOCKS_PER_REGION, c) >= RegionCells
              THEN [result |-> "panic", block |-> NewBlock(Namespaced(AirName))]
              ELSE [result |-> "Ok",
                    block |-> ChunkGetBlock(cs[ChunkOf(c)].nbt, c[1], c[2], c[3]).block]

BoundsEdits ==
    (OutCoordinates \X {Dirt}) \cup {<<cHigh, Stone>>, <<cNear, Dirt>>, <<cFar, Dirt>>}

BoundsNext ==
    \/ \E e \in BoundsEdits : SetBlock(e[1], e[2])
    \/ WriteBlocksBegin
    \/ \E key \in ChunkKeys : WriteChunk(key)
    \/ WriteBlocksEnd

BoundsSpec == Init /\ [][BoundsNext]_vars

(* C12: for every coordinate with x >= 512 or z >= 512 Region::set_block   *)
(* and Region::get_block return an error, and no chunk's buffer, seen-bits *)
(* or NBT changes.                                                         *)
C12_OutOfRegionRejected ==
    [][ /\ \A c \in OutCoordinates : GetBlock(chunks, c).result = "NoChunk"
        /\ (hist' # hist /\ hist'[1].op = "set_block" /\ hist'[1].c \in OutCoordinates) =>
              /\ hist'[1].result = "NoChunk"
              /\ chunks' = chunks
      ]_vars

(***************************************************************************)
(* Region::set_sections, the biome calls, and shared chunk NBT.            *)
(***************************************************************************)

(* A cast to i8. *)
I8(v) == ((v + 2 ^ 7) % (2 ^ 8)) - 2 ^ 7

(* write.rs 169-194: the loop over 0..block_entities.len(), the length     *)
(* taken once; an index past the shortened list panics.                    *)
RECURSIVE EvictLoop(_, _, _, _, _)
EvictLoop(i, len, block_entities, key, section_y) ==
    IF i >= len THEN [block_entities |-> block_entities, err |-> "Ok"]
    ELSE IF i >= Len(block_entities) THEN [block_entities |-> block_entities, err |-> "panic"]
    ELSE LET x == AndChunkOp(block_entities[i + 1].x)
             y == AndChunkOp(block_entities[i + 1].y)
             z == AndChunkOp(block_entities[i + 1].z)
             low == I8(section_y * WIDTH)
         IN IF \/ (key[1] <= x /\ x < key[1] + WIDTH)
               \/ (low <= y /\ y < I8(low + WIDTH))
               \/ (key[2] <= z /\ z < key[2] + WIDTH)
            THEN EvictLoop(i + 1, len, RemoveAt(block_entities, i), key, section_y)
            ELSE EvictLoop(i + 1, len, block_entities, key, section_y)

(* write.rs 139-167: the section becomes the single block; its light tags  *)
(* are removed when update_lighting is set (write.rs 147-150).             *)
SectionOfBlock(section, block, cfg) ==
    [section EXCEPT !.block_states = [palette |-> <<to_compound(block)>>, data |-> NoData],
                    !.light = IF cfg.update_lighting THEN {} ELSE @]

(* write.rs 106-196 once the chunk passed its checks. *)
SetSectionChecked(chunk, key, section_y, block, cfg) ==
    LET nbt == [chunk.nbt EXCEPT !.Heightmaps = {},
                                 !.isLightOn = IF cfg.update_lighting THEN 0 ELSE @]
        hits == { k \in 1 .. Len(nbt.sections) : nbt.sections[k].Y = section_y }
        evicted == EvictLoop(0, Len(nbt.block_entities), nbt.block_entities, key, section_y)
    IN IF hits = {}
       THEN [chunk |-> [chunk EXCEPT !.nbt = nbt], err |-> "MissingNbtTag"]
       ELSE [chunk |-> [chunk EXCEPT !.nbt =
                          [nbt EXCEPT
                             !.sections = [k \in 1 .. Len(nbt.sections) |->
                                              IF k \in hits /\ \A j \in hits : k <= j
                                              THEN SectionOfBlock(nbt.sections[k], block, cfg)
                                              ELSE nbt.sections[k]],
                             !.block_entities = evicted.block_entities]],
             err |-> evicted.err]

(* write.rs 84-202: one entry of Region::set_sections on a chunk whose     *)
(* NBT has `others` further strong references.                             *)
SetSectionOn(chunk, key, section_y, block, cfg, others) ==
    IF others > 0 THEN [chunk |-> chunk, err |-> "TriedToAccessArc"]
    ELSE IF is_valid_chunk(chunk.nbt, cfg) # "Ok"
    THEN [chunk |-> chunk, err |-> is_valid_chunk(chunk.nbt, cfg)]
    ELSE SetSectionChecked(chunk, key, section_y, block, cfg)

(* A coordinate of section section_y of chunk key, naming both in hist. *)
SectionCorner(key, section_y) == <<key[1] * WIDTH, section_y * WIDTH, key[2] * WIDTH>>

(* Region::set_section *)
SetSection(key, section_y, block) ==
    LET r == SetSectionOn(chunks[key], key, section_y, block, config, refs[key])
    IN /\ flush.pc = "idle"
       /\ calls < MaxCalls
       /\ chunks' = [chunks EXCEPT ![key] = r.chunk]
       /\ hist' = Record(Call("set_section", SectionCorner(key, section_y), block, r.err, FALSE))
       /\ calls' = calls + 1
       /\ UNCHANGED <<flush, task, accepted, codec, config, bio, refs, par, eq, found, bc, gc, bw>>

(* Region::set_biome *)
SetBiome(key, section, cell, id) ==
    LET r == ChunkSetBiome(bio[key], section, cell, id)
    IN /\ flush.pc = "idle"
       /\ calls < MaxCalls
       /\ bio' = [bio EXCEPT ![key] = r.b]
       /\ hist' = Record(Call("set_biome", SectionCorner(key, section), Stone, r.result, FALSE))
       /\ calls' = calls + 1
       /\ UNCHANGED <<chunks, flush, task, accepted, codec, config, refs, par, eq, found, bc, gc, bw>>

(* ChunkData::write_biomes on the chunk get_chunk_mut hands out. *)
WriteBiomes(key) ==
    LET r == ChunkWriteBiomes(chunks[key].nbt, bio[key], config, refs[key])
    IN /\ flush.pc = "idle"
       /\ calls < MaxCalls
       /\ bio' = [bio EXCEPT ![key] = r.b]
       /\ hist' = Record(Call("write_biomes", SectionCorner(key, 0), Stone, r.err, FALSE))
       /\ calls' = calls + 1
       /\ UNCHANGED <<chunks, flush, task, accepted, codec, config, refs, par, eq, found, bc, gc, bw>>

MaxRefs == 1

(* chunk.rs 14-21: a caller clones the chunk's Arc<NbtCompound>. *)
CloneNbt(key) ==
    /\ refs[key] < MaxRefs
    /\ refs' = [refs EXCEPT ![key] = @ + 1]
    /\ UNCHANGED <<chunks, flush, hist, task, accepted, calls, codec, config, bio, par, eq, found, bc, gc, bw>>

(* The caller drops its clone. *)
DropNbt(key) ==
    /\ refs[key] > 0
    /\ refs' = [refs EXCEPT ![key] = @ - 1]
    /\ UNCHANGED <<chunks, flush, hist, task, accepted, calls, codec, config, bio, par, eq, found, bc, gc, bw>>

Swamp == "minecraft:swamp"

Desert == "minecraft:desert"

AliasKeys == {ChunkOf(cFar)}

AliasNext ==
    \/ \E e \in {<<cHigh, Stone>>, <<cFar, Dirt>>} : SetBlock(e[1], e[2])
    \/ \E key \in AliasKeys : SetBiome(key, 0, <<0, 0, 1>>, Swamp)
    \/ \E key \in AliasKeys : WriteBiomes(key)
    \/ \E key \in AliasKeys : SetSection(key, 0, Dirt)
    \/ \E key \in AliasKeys : CloneNbt(key)
    \/ \E key \in AliasKeys : DropNbt(key)
    \/ WriteBlocksBegin
    \/ \E key \in ChunkKeys : WriteChunk(key)
    \/ WriteBlocksEnd

AliasSpec == Init /\ [][AliasNext]_vars

(* The newest call of hist is a new call, of operation op on chunk key. *)
CallOn(op, key) == hist' # hist /\ hist'[1].op = op /\ ChunkOf(hist'[1].c) = key

(* C13: whenever another strong reference to a chunk's NBT exists,         *)
(* ChunkData::write_blocks, write_biomes and Region::set_sections fail     *)
(* with TriedToAccessArc and change neither the chunk's NBT nor its        *)
(* pending buffers, seen-bits and dirty flags.                             *)
C13_SharedNbtRejected ==
    [][ \A key \in ChunkKeys :
           refs[key] > 0 =>
              /\ TaskStepOn(key) =>
                    /\ task'.err = "TriedToAccessArc"
                    /\ chunks'[key] = chunks[key]
                    /\ bio'[key] = bio[key]
              /\ (CallOn("write_biomes", key) \/ CallOn("set_section", key)) =>
                    /\ hist'[1].result = "TriedToAccessArc"
                    /\ chunks'[key] = chunks[key]
                    /\ bio'[key] = bio[key]
      ]_vars

(* All three calls were refused on a chunk with buffered edits. *)
C13_Witness ==
    /\ \E i \in 1 .. Len(hist) : hist[i].op = "write_biomes" /\ hist[i].result = "TriedToAccessArc"
    /\ \E i \in 1 .. Len(hist) : hist[i].op = "set_section" /\ hist[i].result = "TriedToAccessArc"
    /\ task.err = "TriedToAccessArc"
    /\ chunks[task.key].dirty_blocks

(***************************************************************************)
(* The parallel flush against the flush of one chunk after another.        *)
(***************************************************************************)

FlushReturned == flush.pc = "idle" /\ hist[1].op = "write_blocks"

HandleOut(key) ==
    \E u \in Threads : par.threads[u].pc = "holding" /\ ChunkOf(par.threads[u].c) = key

(* fill_region.rs 28: region.get_chunk_mut(chunk_x, chunk_z)? *)
Acquire(t, c, block) ==
    /\ flush.pc = "idle"
    /\ calls < MaxCalls
    /\ par.threads[t].pc = "idle"
    /\ get_chunk_mut(chunks, ChunkOf(c))
    /\ ~HandleOut(ChunkOf(c))
    /\ par' = [par EXCEPT !.threads[t] = [pc |-> "holding", c |-> c, block |-> block]]
    /\ calls' = calls + 1
    /\ UNCHANGED <<chunks, flush, hist, task, accepted, codec, config, bio, refs, eq, found, bc, gc, bw>>

(* fill_region.rs 29-31: chunk.set_block(x & 15, y, z & 15, block), after  *)
(* which the handle goes out of scope.                                     *)
SetUnderHandle(t) ==
    LET c == par.threads[t].c
        key == ChunkOf(c)
        local == LocalOf(c)
        r == ChunkSetBlock(chunks[key], local[1], local[2], local[3], par.threads[t].block)
    IN /\ par.threads[t].pc = "holding"
       /\ chunks' = [chunks EXCEPT ![key] = r.chunk]
       /\ hist' = Record(Call("set_block", c, par.threads[t].block, r.result,
                              ~HasPending(chunks[key], local)))
       /\ accepted' = IF r.result = "Some"
                      THEN [accepted EXCEPT ![key] = @ \cup {<<c, par.threads[t].block>>}]
                      ELSE accepted
       /\ par' = [par EXCEPT
                     !.threads[t].pc = "idle",
                     !.log = Append(@, [c |-> c, block |-> par.threads[t].block,
                                        result |-> r.result])]
       /\ UNCHANGED <<flush, task, calls, codec, config, bio, refs, eq, found, bc, gc, bw>>

ParNext ==
    \/ \E t \in Threads, e \in Edits : Acquire(t, e[1], e[2])
    \/ \E t \in Threads : SetUnderHandle(t)

ParSpec == Init /\ [][ParNext]_vars

(* The calls of a log made one after another on the chunks cs. *)
RECURSIVE Replay(_, _, _)
Replay(log, i, cs) ==
    IF i > Len(log) THEN cs
    ELSE LET key == ChunkOf(log[i].c)
             local == LocalOf(log[i].c)
         IN Replay(log, i + 1,
                [cs EXCEPT ![key] =
                    ChunkSetBlock(cs[key], local[1], local[2], local[3], log[i].block).chunk])

Quiescent == \A t \in Threads : par.threads[t].pc = "idle"

Inserted(c) == { i \in 1 .. Len(par.log) : par.log[i].c = c /\ par.log[i].result = "Some" }

ParSerialized ==
    \E far \in {get_empty_chunk, LoadedChunk(FALSE), LoadedChunk(TRUE)} :
        chunks = Replay(par.log, 1,
                    [k \in ChunkKeys |->
                        NewChunkData(IF k = ChunkOf(cFar) THEN far ELSE get_empty_chunk)])

(***************************************************************************)
(* Biome edits and their flush.                                            *)
(***************************************************************************)

BiomeSections == {4, 5}

(* Cells of index 4, 1 and 20, the cells a call may set, and two more. *)
SetCells == {<<0, 0, 1>>, <<1, 0, 0>>, <<0, 1, 1>>}

CheckedCells == SetCells \cup {<<0, 0, 0>>, <<CELL_SIZE - 1, CELL_SIZE - 1, CELL_SIZE - 1>>}

BiomeEdits ==
    { <<4, <<0, 0, 1>>, Swamp>>, <<4, <<1, 0, 0>>, Desert>>, <<4, <<0, 1, 1>>, Swamp>>,
      <<4, <<0, 0, 1>>, Desert>>, <<5, <<0, 0, 1>>, Desert>> }

BiomeNext ==
    \/ \E e \in BiomeEdits : SetBiome(ChunkOf(cHigh), e[1], e[2], e[3])
    \/ WriteBiomes(ChunkOf(cHigh))

BiomeSpec == Init /\ [][BiomeNext]_vars

(* The pending biome edits of a cell. *)
PendingBiomeAt(b, section, cell) ==
    IF section \in DOMAIN b.pending_biomes
    THEN SelectSeq(b.pending_biomes[section], LAMBDA e : e.cell = cell)
    ELSE <<>>

(* C16: after a flush of a chunk's biomes get_biome returns, for every     *)
(* cell with a buffered edit, the buffered biome and, for every other      *)
(* cell, the biome it had before, also when the section already carries    *)
(* biome data from an earlier flush.                                       *)
C16_BiomeFlush ==
    [][ \A key \in ChunkKeys :
           (CallOn("write_biomes", key) /\ hist'[1].result = "Ok") =>
              \A s \in BiomeSections, cell \in CheckedCells :
                 /\ ChunkGetBiome(bio'[key], s, cell).ok
                 /\ ChunkGetBiome(bio'[key], s, cell).id =
                       IF PendingBiomeAt(bio[key], s, cell) # <<>>
                       THEN PendingBiomeAt(bio[key], s, cell)[1].id
                       ELSE ChunkGetBiome(bio[key], s, cell).id
      ]_vars

(* The same for a flush into sections that hold no biome data yet. *)
FirstBiomeFlush ==
    [][ \A key \in ChunkKeys :
           (/\ CallOn("write_biomes", key) /\ hist'[1].result = "Ok"
            /\ \A s \in BiomeSections : ~bio[key].sections[s].data.present) =>
              \A s \in BiomeSections, cell \in CheckedCells :
                 /\ ChunkGetBiome(bio'[key], s, cell).ok
                 /\ ChunkGetBiome(bio'[key], s, cell).id =
                       IF PendingBiomeAt(bio[key], s, cell) # <<>>
                       THEN PendingBiomeAt(bio[key], s, cell)[1].id
                       ELSE ChunkGetBiome(bio[key], s, cell).id
      ]_vars

(***************************************************************************)
(* Ids without a namespace.                                                *)
(***************************************************************************)

(* Block::new("beacon") and Block::new("air"): a &str becomes Name::Id. *)
Beacon == NewBlock(Id(<<"beacon">>))

Air == NewBlock(Id(<<"air">>))

(* (2, 80, 2) of bin/region.rs: section 5 of chunk (0,0). *)
cBeacon == <<1, 5 * WIDTH, 1>>

cOrigin == <<0, 0, 0>>

(* Region::full_empty *)
FullEmptyInit == Init /\ chunks = [k \in ChunkKeys |-> NewChunkData(get_empty_chunk)]

NameEdits ==
    { <<cBeacon, Beacon>>, <<cBeacon, Stone>>, <<cOrigin, Beacon>>, <<cNear, Dirt>>,
      <<cHigh, Air>> }

NameNext ==
    \/ \E e \in NameEdits : SetBlock(e[1], e[2])
    \/ WriteBlocksBegin
    \/ \E key \in ChunkKeys : WriteChunk(key)
    \/ WriteBlocksEnd

NameSpec == FullEmptyInit /\ [][NameNext]_vars

(* set_block(cBeacon, "beacon") and write_blocks were the only calls. *)
BeaconWritten ==
    /\ FlushReturned /\ hist[1].result = "Ok"
    /\ calls = 2
    /\ hist[2].op = "set_block" /\ hist[2].c = cBeacon /\ hist[2].block = Beacon

(* The block with its name namespaced, as Name::into_namespaced gives it. *)
NamespacedBlock(block) == [block EXCEPT !.name = Namespaced(into_namespaced(@))]

(* C17: a block given by an id without a namespace is treated as          *)
(* minecraft:<id>: on a full-empty region, after set_block(cBeacon,        *)
(* "beacon") and write_blocks, get_block(cBeacon) equals the block         *)
(* "beacon" and get_block of the origin equals the block "air".            *)
C17_ReadsUnnamespaced ==
    BeaconWritten =>
        /\ GetBlock(chunks, cBeacon).result = "Ok"
        /\ BlockEq(GetBlock(chunks, cBeacon).block, Beacon)
        /\ BlockEq(GetBlock(chunks, cOrigin).block, Air)

(* What is read back is the block with its name namespaced: the block     *)
(* minecraft:beacon at cBeacon and the block minecraft:air at the origin.  *)
ReadsNamespaced ==
    BeaconWritten =>
        /\ GetBlock(chunks, cBeacon).result = "Ok"
        /\ GetBlock(chunks, cBeacon).block = NewBlock(Namespaced(<<"minecraft", Colon, "beacon">>))
        /\ BlockEq(GetBlock(chunks, cBeacon).block, NamespacedBlock(Beacon))
        /\ GetBlock(chunks, cOrigin).result = "Ok"
        /\ BlockEq(GetBlock(chunks, cOrigin).block, NamespacedBlock(Air))

(***************************************************************************)
(* Equality of blocks, and of a block with a palette entry.                *)
(***************************************************************************)

Lit(v) == {<<"lit", v>>}

EqNames == {Id(<<"stone">>), Namespaced(StoneName), Namespaced(<<"minecraft", Colon, "dirt">>)}

EqProperties == {NoneProps, SomeProps({}), SomeProps(Lit("true")), SomeProps(Lit("false"))}

EqBlocks == { [name |-> n, properties |-> p] : n \in EqNames, p \in EqProperties }

(* Palette entries: what to_compound writes, and entries of a region file  *)
(* that carry an empty Properties compound.                                *)
EqCompounds ==
    { to_compound(block) : block \in EqBlocks }
       \cup { [Name |-> StoneName, Properties |-> [present |-> TRUE, map |-> {}]] }

EqInputs ==
    { [EqIdle EXCEPT !.pc = "chosen", !.a = a, !.b = b, !.tag = tag] :
         a \in EqBlocks, b \in EqBlocks, tag \in EqCompounds }

EqInit ==
    /\ eq \in EqInputs
    /\ chunks = [k \in ChunkKeys |-> NewChunkData(get_empty_chunk)]
    /\ flush = [pc |-> "idle", todo |-> {}, err |-> "Ok", failed |-> {}, succeeded |-> {},
                before |-> [k \in ChunkKeys |-> EmptyBuffer],
                serial |-> NoSerial]
    /\ hist = <<NoCall>>
    /\ task = NoTask
    /\ accepted = NoAccepted
    /\ calls = 0
    /\ bw = BwIdle
    /\ gc = GcIdle
    /\ bc = BcIdle
    /\ found = FoundIdle
    /\ par = ParIdle
    /\ refs = NoRefs
    /\ bio = BioInit
    /\ config = DefaultConfig
    /\ codec = CodecIdle

(* a == b and &a == &tag are evaluated. *)
Compare ==
    /\ eq.pc = "chosen"
    /\ eq' = [eq EXCEPT !.pc = "done",
                        !.block_eq = BlockEq(eq.a, eq.b),
                        !.compound_eq = BlockEqCompound(eq.a, eq.tag)]
    /\ UNCHANGED <<chunks, flush, hist, task, accepted, calls, codec, config, bio, refs, par, found, bc, gc, bw>>

EqNext == Compare

EqSpec == EqInit /\ [][EqNext]_vars

(* Ids match and the property maps are deeply equal, an absent map being   *)
(* an empty one.                                                           *)
SameIdAndProperties(a, b) ==
    /\ into_namespaced(a.name) = into_namespaced(b.name)
    /\ a.properties.map = b.properties.map

SameAsCompound(a, tag) ==
    /\ into_namespaced(a.name) = tag.Name
    /\ a.properties.map = tag.Properties.map

(* C18: two blocks are equal iff their ids match and their property maps   *)
(* are deeply equal, an absent and an empty property map being equivalent, *)
(* for Block == Block and for the comparison of a Block with a palette     *)
(* NBT compound.                                                           *)
C18_BlockEquality ==
    eq.pc = "done" =>
        /\ eq.block_eq <=> SameIdAndProperties(eq.a, eq.b)
        /\ eq.compound_eq <=> SameAsCompound(eq.a, eq.tag)

(* The same with the names of both blocks of one kind: what is left is the *)
(* absent against the empty property map.                                  *)
EqualityOfPresentMaps ==
    (eq.pc = "done" /\ eq.a.properties.some /\ eq.b.properties.some
        /\ eq.a.properties.map # {} /\ eq.a.name.kind = eq.b.name.kind) =>
        /\ eq.block_eq <=> SameIdAndProperties(eq.a, eq.b)
        /\ eq.compound_eq <=> SameAsCompound(eq.a, eq.tag)


(***************************************************************************)
(* get.rs: the bulk query.                                                 *)
(***************************************************************************)

(* find_blocks 62-77: the coordinates of one section are looked up in the  *)
(* decoded indexes and inserted under the section's handle.                *)
RECURSIVE InsertFound(_, _, _, _, _)
InsertFound(r, blocks_to_get, k, indexes, pal_index) ==
    IF k > Len(blocks_to_get) \/ r.err # "Ok" THEN r
    ELSE LET c == blocks_to_get[k]
             index == AndChunkOp(c[1]) + AndChunkOp(c[3]) * WIDTH
                         + AndChunkOp(c[2]) * WIDTH * WIDTH
         IN InsertFound(insert_at(r.pb, c, pal_index, indexes[index]),
                        blocks_to_get, k + 1, indexes, pal_index)

(* find_blocks: the sections of the chunk NBT in their order; a section    *)
(* without queried coordinates is passed over, and queried coordinates of  *)
(* a section the NBT does not hold are never looked up.  indexes is the    *)
(* scratch array of get_blocks, carried from section to section.           *)
RECURSIVE find_blocks(_, _, _, _)
find_blocks(st, group, nbt, k) ==
    IF k > Len(nbt.sections) \/ st.err # "Ok" THEN st
    ELSE LET section == nbt.sections[k]
             blocks_to_get == SelectSeq(group, LAMBDA c : SectionOf(c[2]) = section.Y)
             state == section.block_states
             indexes == DecodeData(BLOCK_DATA_LEN, st.indexes,
                                   get_block_bit_count(Len(state.palette)),
                                   state.data).indexes
             handle == insert_palette_only(st.pb, state.palette)
             r == InsertFound(PalResult(handle.pb, "Ok"), blocks_to_get, 1,
                              indexes, handle.index)
         IN IF blocks_to_get = <<>>
            THEN find_blocks(st, group, nbt, k + 1)
            ELSE find_blocks([pb |-> r.pb, indexes |-> indexes, err |-> r.err],
                             group, nbt, k + 1)

(* get_blocks 142-152: the chunk groups one after another. *)
RECURSIVE FindGroups(_, _, _, _)
FindGroups(st, cs, blocks, keys) ==
    IF keys = <<>> \/ st.err # "Ok" THEN st
    ELSE IF Head(keys) \notin DOMAIN cs
         THEN [st EXCEPT !.err = "NoChunk"]
         ELSE FindGroups(
                find_blocks(st, SelectSeq(blocks, LAMBDA c : ChunkOf(c) = Head(keys)),
                            cs[Head(keys)].nbt, 1),
                cs, blocks, Tail(keys))

(* Region::get_blocks *)
get_blocks(cs, blocks) ==
    FindGroups([pb |-> NewPalettedBlocks(WorldStart, WorldEnd - WorldStart + 1,
                                         BLOCKS_PER_REGION),
                indexes |-> ZeroIndexes(BLOCK_DATA_LEN),
                err |-> "Ok"],
               cs, blocks, KeysInOrder({ ChunkOf(blocks[i]) : i \in DOMAIN blocks }))

(* Region::get_block: get_blocks of the one coordinate, then get; a        *)
(* coordinate the set does not hold panics.                                *)
get_block(cs, c) ==
    LET b == get_blocks(cs, <<c>>)
    IN IF b.err # "Ok" THEN [result |-> b.err, block |-> NewBlock(Namespaced(AirName))]
       ELSE IF PalGet(b.pb, c).result = "Some"
            THEN [result |-> "Ok", block |-> PalGet(b.pb, c).block]
            ELSE [result |-> "panic", block |-> NewBlock(Namespaced(AirName))]

(* The set_block calls made before the queries. *)
BulkEdits == { <<cHigh, Stone>>, <<cNear, Dirt>>, <<cFar, Dirt>> }

(* The coordinate lists handed to get_blocks, each of distinct coordinates. *)
Queries ==
    { <<cHigh, cNear, cLow, cFar>>, <<cFar, cBelow, cHigh>>, <<cHigh, cOut>> }

(* Region::get_blocks called between flushes. *)
GetBlocks(query) ==
    /\ flush.pc = "idle"
    /\ LET r == get_blocks(chunks, query)
       IN found' = [found EXCEPT !.pc = "done", !.query = query,
                                 !.err = r.err, !.pb = r.pb]
    /\ UNCHANGED <<chunks, flush, hist, task, accepted, calls, codec, config, bio, refs,
                   par, eq, bc, gc, bw>>

BulkNext ==
    \/ \E e \in BulkEdits : SetBlock(e[1], e[2])
    \/ WriteBlocksBegin
    \/ \E key \in ChunkKeys : WriteChunk(key)
    \/ WriteBlocksEnd
    \/ \E query \in Queries : GetBlocks(query)

BulkSpec == Init /\ [][BulkNext]_vars

(* Every coordinate of the list can be read on its own. *)
Readable(cs, query) == \A i \in DOMAIN query : get_block(cs, query[i]).result = "Ok"

(* The pairs of an iteration are one per coordinate of the list, each with *)
(* the block get_block returns.                                            *)
OnePairEach(cs, query, pairs) ==
    /\ Len(pairs) = Len(query)
    /\ \A i \in DOMAIN query :
          Cardinality({ j \in DOMAIN pairs : pairs[j].coordinates = query[i] }) = 1
    /\ \A j \in DOMAIN pairs :
          /\ pairs[j].coordinates \in Range(query)
          /\ pairs[j].block = get_block(cs, pairs[j].coordinates).block

(* C19: Region::get_blocks over a list of n distinct coordinates that lie  *)
(* in existing chunks returns a set whose len is n, and iterating the set  *)
(* yields exactly one pair (c, block) per queried coordinate c, with block *)
(* equal to get_block(c).                                                  *)
C19_BulkQuery ==
    [][ (found' # found /\ Readable(chunks, found'.query)) =>
           /\ found'.err = "Ok"
           /\ PalLen(found'.pb) = Len(found'.query)
           /\ OnePairEach(chunks, found'.query, IntoIter(found'.pb))
      ]_vars

(* A query of four coordinates in two chunks returned four pairs with      *)
(* different blocks among them.                                            *)
C19_Witness ==
    /\ found.pc = "done"
    /\ found.err = "Ok"
    /\ Len(found.query) = 4
    /\ PalLen(found.pb) = 4
    /\ Len(IntoIter(found.pb)) = 4
    /\ \E i, j \in 1 .. 4 : IntoIter(found.pb)[i].block # IntoIter(found.pb)[j].block
    /\ Cardinality({ ChunkOf(found.query[i]) : i \in 1 .. 4 }) = 2

(***************************************************************************)
(* A PalettedBlocks filled and emptied by its caller.                      *)
(***************************************************************************)

MaxPalOps == 5

(* The palettes of two sections. *)
StonePalette == <<StoneCompound>>

MixedPalette == <<AirCompound, to_compound(Dirt)>>

Palettes == {StonePalette, MixedPalette}

(* Cells of a set one chunk wide: the first, one in the middle, the last. *)
PalCoordinates == { <<0, WorldStart, 0>>, <<1, 0, 0>>, <<WIDTH - 1, WorldEnd, WIDTH - 1>> }

(* PalettedBlocks::new(world_height, 16) *)
PalInit ==
    /\ found = [FoundIdle EXCEPT
                   !.pb = NewPalettedBlocks(WorldStart, WorldEnd - WorldStart + 1, WIDTH)]
    /\ chunks = [k \in ChunkKeys |-> NewChunkData(get_empty_chunk)]
    /\ flush = [pc |-> "idle", todo |-> {}, err |-> "Ok", failed |-> {}, succeeded |-> {},
                before |-> [k \in ChunkKeys |-> EmptyBuffer],
                serial |-> NoSerial]
    /\ hist = <<NoCall>>
    /\ task = NoTask
    /\ accepted = NoAccepted
    /\ calls = 0
    /\ bw = BwIdle
    /\ gc = GcIdle
    /\ bc = BcIdle
    /\ eq = EqIdle
    /\ par = ParIdle
    /\ refs = NoRefs
    /\ bio = BioInit
    /\ config = DefaultConfig
    /\ codec = CodecIdle

(* Whether the cell of a coordinate is occupied. *)
Occupied(pb, c) == to_index(pb.bottom_y, pb.width, c) \in pb.placed_blocks

(* found after an operation on its set.  overwritten records that an      *)
(* insert has met an occupied cell; held is the set of coordinates that an *)
(* insert has returned from and no remove has returned Ok for since;       *)
(* shifted records that the operation rewrote the handle of another cell.  *)
PalStep(op, c, pb, err, block, over) ==
    /\ calls < MaxPalOps
    /\ calls' = calls + 1
    /\ found' = [found EXCEPT
                    !.pc = op, !.query = <<c>>, !.pb = pb, !.err = err,
                    !.block = block,
                    !.overwritten = @ \/ over,
                    !.held = IF op # "remove" /\ err = "Ok" THEN @ \cup {c}
                             ELSE IF op = "remove" /\ err = "Ok" THEN @ \ {c}
                             ELSE @,
                    !.shifted =
                        \E i \in DOMAIN pb.blocks :
                            /\ i # to_index(pb.bottom_y, pb.width, c)
                            /\ pb.blocks[i] # CellValue(found.pb, i)]
    /\ UNCHANGED <<chunks, flush, hist, task, accepted, codec, config, bio, refs, par, eq, bc, gc, bw>>

(* PalettedBlocks::insert *)
Insert(c, palette, palette_index) ==
    /\ palette_index < Len(palette)
    /\ PalStep("insert", c, insert(found.pb, c, palette, palette_index).pb,
               insert(found.pb, c, palette, palette_index).err, found.block,
               Occupied(found.pb, c))

(* PalettedBlocks::insert_at, with a handle an insert has returned. *)
InsertAt(c, palette, palette_index) ==
    /\ palette < Len(found.pb.palette)
    /\ palette_index < Len(found.pb.palette[palette + 1].entries)
    /\ PalStep("insert_at", c, insert_at(found.pb, c, palette, palette_index).pb,
               insert_at(found.pb, c, palette, palette_index).err, found.block,
               Occupied(found.pb, c))

(* PalettedBlocks::remove *)
Remove(c) ==
    \E outcome \in remove_block(found.pb, c).outcomes :
        PalStep("remove", c, remove_block(found.pb, c).pb, outcome.err, outcome.block, FALSE)

PalNext ==
    \/ \E c \in PalCoordinates, palette \in Palettes, palette_index \in 0 .. 1 :
          Insert(c, palette, palette_index)
    \/ \E c \in PalCoordinates, palette \in 0 .. 1, palette_index \in 0 .. 1 :
          InsertAt(c, palette, palette_index)
    \/ \E c \in PalCoordinates : Remove(c)

PalSpec == PalInit /\ [][PalNext]_vars

(* The occupied cells that reference a handle. *)
CellsOf(pb, palette) ==
    { i \in pb.placed_blocks : deconstruct_block_val(CellValue(pb, i))[1] = palette }

(* C20: after any sequence of insert, insert_at and remove, the reference  *)
(* count of each palette handle equals the number of occupied cells that   *)
(* reference it, and a handle whose last referencing cell has been removed *)
(* is no longer in the palette table.                                      *)
C20_RefCounts ==
    \A palette \in 0 .. (Len(found.pb.palette) - 1) :
        /\ found.pb.palette[palette + 1].refs = Cardinality(CellsOf(found.pb, palette))
        /\ CellsOf(found.pb, palette) # {}

(* The counts are exact as long as no insert has met an occupied cell. *)
RefCountsWithoutOverwrite ==
    ~found.overwritten =>
        \A palette \in 0 .. (Len(found.pb.palette) - 1) :
            /\ found.pb.palette[palette + 1].refs = Cardinality(CellsOf(found.pb, palette))
            /\ CellsOf(found.pb, palette) # {}

(* A count is never below the number of referencing cells. *)
RefCountsAtLeast ==
    \A palette \in 0 .. (Len(found.pb.palette) - 1) :
        found.pb.palette[palette + 1].refs >= Cardinality(CellsOf(found.pb, palette))

(* A remove has just been made on a cell that was occupied. *)
RemovedOccupied ==
    /\ calls' # calls
    /\ found'.pc = "remove"
    /\ Occupied(found.pb, found'.query[1])

(* C21: PalettedBlocks::remove on an occupied cell returns the block that  *)
(* get returned immediately before the call, for every cell, whether or    *)
(* not it holds the last reference to its palette and whatever the         *)
(* position of that palette in the table.                                  *)
C21_RemoveReturnsBlock ==
    [][ RemovedOccupied =>
           /\ found'.err = "Ok"
           /\ found'.block = PalGet(found.pb, found'.query[1]).block
      ]_vars

(* The same for a removal that leaves the handle of the cell in the table. *)
RemoveOfSharedHandle ==
    [][ (RemovedOccupied /\ Len(found'.pb.palette) = Len(found.pb.palette)) =>
           /\ found'.err = "Ok"
           /\ found'.block = PalGet(found.pb, found'.query[1]).block
      ]_vars

(* C22: removing a cell, including a removal that drops a palette from the *)
(* table and shifts the handles after it, leaves get(c) unchanged for      *)
(* every other occupied coordinate c.                                      *)
C22_RemoveKeepsOthers ==
    [][ RemovedOccupied =>
           \A c \in PalCoordinates \ {found'.query[1]} :
               Occupied(found.pb, c) =>
                  /\ PalGet(found.pb, c).result = "Some"
                  /\ PalGet(found'.pb, c) = PalGet(found.pb, c)
      ]_vars

(* A removal dropped a handle and rewrote the handle of a cell that is     *)
(* still occupied.                                                         *)
C22_Witness ==
    /\ found.pc = "remove"
    /\ found.shifted
    /\ found.pb.placed_blocks # {}
    /\ found.pb.palette # <<>>

(* C23: PalettedBlocks::len equals the number of distinct coordinates that *)
(* were inserted and not removed since; inserting again at an occupied     *)
(* coordinate leaves len unchanged and a successful remove decreases it by *)
(* one.                                                                    *)
C23_LenCountsCoordinates ==
    [][ /\ PalLen(found'.pb) = Cardinality(found'.held)
        /\ (calls' # calls /\ found'.pc # "remove" /\ Occupied(found.pb, found'.query[1])) =>
              PalLen(found'.pb) = PalLen(found.pb)
        /\ (calls' # calls /\ found'.pc = "remove" /\ found'.err = "Ok") =>
              PalLen(found'.pb) = PalLen(found.pb) - 1
      ]_vars

(* The steps of len alone: an insert at an occupied coordinate leaves it   *)
(* unchanged, an insert at a vacant one adds one, a remove that returns Ok *)
(* takes one.                                                              *)
LenSteps ==
    [][ /\ (calls' # calls /\ found'.pc # "remove") =>
              PalLen(found'.pb) = PalLen(found.pb)
                                     + (IF Occupied(found.pb, found'.query[1]) THEN 0 ELSE 1)
        /\ (calls' # calls /\ found'.pc = "remove" /\ found'.err = "Ok") =>
              PalLen(found'.pb) = PalLen(found.pb) - 1
      ]_vars

(* len is the number of occupied cells, and every occupied coordinate is   *)
(* one that was inserted and not removed with Ok since.                    *)
LenAtMostHeld ==
    /\ PalLen(found.pb) = Cardinality({ c \in PalCoordinates : Occupied(found.pb, c) })
    /\ \A c \in PalCoordinates : Occupied(found.pb, c) => c \in found.held

(* C24: PalettedBlocks::remove on a coordinate that holds no block returns *)
(* an error and leaves the set unchanged: len, the palette table with its  *)
(* reference counts and every other cell are as before.                    *)
C24_RemoveOfVacant ==
    [][ (calls' # calls /\ found'.pc = "remove" /\ ~Occupied(found.pb, found'.query[1])) =>
           /\ found'.err = "UnsetPaletteBlock"
           /\ found'.pb = found.pb
      ]_vars

(* A remove on a vacant coordinate of a set that holds blocks has returned. *)
C24_Witness ==
    /\ found.pc = "remove"
    /\ found.err = "UnsetPaletteBlock"
    /\ PalLen(found.pb) >= 2
    /\ Len(found.pb.palette) = 2

(***************************************************************************)
(* Region::set_section read back.                                          *)
(***************************************************************************)

(* The sections a caller fills: section 0 of the chunk of cFar, the        *)
(* section of cHigh in chunk (0, 0), and the section under it.             *)
FilledSections ==
    { <<ChunkOf(cFar), 0>>, <<ChunkOf(cHigh), SectionOf(cHigh[2])>>,
      <<ChunkOf(cHigh), SectionOf(cHigh[2]) - 1>> }

SectionNext ==
    \/ \E e \in {<<cHigh, Stone>>, <<cNear, Dirt>>, <<cFar, Dirt>>} : SetBlock(e[1], e[2])
    \/ \E s \in FilledSections, block \in Blocks : SetSection(s[1], s[2], block)
    \/ WriteBlocksBegin
    \/ \E key \in ChunkKeys : WriteChunk(key)
    \/ WriteBlocksEnd

SectionSpec == Init /\ [][SectionNext]_vars

(* Coordinates read back outside a filled section: in the sections above  *)
(* and under those filled, in other sections and in other chunks.          *)
ProbeCoordinates ==
    { cHigh, cNear, <<0, cHigh[2] - WIDTH, 0>>, <<0, cHigh[2] - 2 * WIDTH, 0>>,
      <<1, cHigh[2] + WIDTH, 1>>, cLow, cOrigin, cFar, cBelow, <<WIDTH, WIDTH, 0>>,
      <<0, 0, WIDTH>> }

(* The newest call is a set_section that returned Ok. *)
SectionSet == hist' # hist /\ hist'[1].op = "set_section" /\ hist'[1].result = "Ok"

(* The section of chunk key with the given Y. *)
SectionIn(cs, key, section_y) ==
    LET nbt == cs[key].nbt
    IN nbt.sections[CHOOSE k \in 1 .. Len(nbt.sections) : nbt.sections[k].Y = section_y]

(* set_section(key, section_y, block) took the region from cs to after:    *)
(* the section reads expected everywhere, and nothing else reads different.*)
SectionFilled(cs, after, key, section_y, block, expected) ==
    /\ \A c \in SectionCoordinates(key, section_y) :
          /\ get_block(after, c).result = "Ok"
          /\ BlockEq(get_block(after, c).block, expected)
    /\ SectionIn(after, key, section_y).block_states.palette = <<to_compound(block)>>
    /\ ~SectionIn(after, key, section_y).block_states.data.present
    /\ \A c \in ProbeCoordinates \ SectionCoordinates(key, section_y) :
          get_block(after, c) = get_block(cs, c)
    /\ \A k \in ChunkKeys : \A i \in 1 .. Len(cs[k].nbt.sections) :
          (k # key \/ cs[k].nbt.sections[i].Y # section_y) =>
             /\ Len(after[k].nbt.sections) = Len(cs[k].nbt.sections)
             /\ after[k].nbt.sections[i].block_states = cs[k].nbt.sections[i].block_states

(* C25: after set_section(chunk, section_y, B) succeeds, get_block returns *)
(* B at every coordinate of that section, the section has palette [B] and  *)
(* no data, and the block at every coordinate of every other section and   *)
(* chunk is unchanged.                                                     *)
C25_SectionFilled ==
    [][ SectionSet =>
           SectionFilled(chunks, chunks', ChunkOf(hist'[1].c), SectionOf(hist'[1].c[2]),
                         hist'[1].block, hist'[1].block)
      ]_vars

(* The same with B read back under its namespaced name. *)
SectionFilledNamespaced ==
    [][ SectionSet =>
           SectionFilled(chunks, chunks', ChunkOf(hist'[1].c), SectionOf(hist'[1].c[2]),
                         hist'[1].block, NamespacedBlock(hist'[1].block))
      ]_vars

(***************************************************************************)
(* The buffer and the NBT between set_block and the flush.                 *)
(***************************************************************************)

(* The newest call is a set_block. *)
BlockSet == calls' # calls /\ hist'[1].op = "set_block"

ChunkWrite(key) ==
    LET r == ChunkWriteBlocks(chunks[key], config, refs[key])
    IN /\ flush.pc = "idle"
       /\ calls < MaxCalls
       /\ calls' = calls + 1
       /\ chunks' = [chunks EXCEPT ![key] = r.chunk]
       /\ hist' = Record(Call("chunk_write_blocks", SectionCorner(key, 0), Stone, r.err,
                              FALSE))
       /\ accepted' = IF r.err = "Ok" THEN [accepted EXCEPT ![key] = {}] ELSE accepted
       /\ UNCHANGED <<flush, task, codec, config, bio, refs, par, eq, found, bc, gc, bw>>

FlushNext ==
    \/ \E e \in {<<cFar, Dirt>>, <<cBelow, Stone>>, <<cHigh, Stone>>, <<cNear, Dirt>>} :
          SetBlock(e[1], e[2])
    \/ \E key \in {ChunkOf(cFar), ChunkOf(cHigh)} : ChunkWrite(key)

FlushSpec == Init /\ [][FlushNext]_vars

(* ChunkData::write_blocks is called on a chunk right after a call of it   *)
(* on the same chunk.                                                      *)
SecondWrite ==
    /\ calls' # calls
    /\ hist'[1].op = "chunk_write_blocks"
    /\ hist[1].op = "chunk_write_blocks"
    /\ hist[1].c = hist'[1].c

(* C27: write_blocks is an idempotent flush: calling                       *)
(* ChunkData::write_blocks a second time with no set_block in between      *)
(* leaves the chunk's NBT, pending buffer, seen-bits and dirty flag        *)
(* exactly as the first call left them.                                    *)
C27_IdempotentFlush ==
    [][ SecondWrite => chunks' = chunks ]_vars

(* The same after a first call that returned Ok. *)
IdempotentAfterOk ==
    [][ (SecondWrite /\ hist[1].result = "Ok") =>
           /\ chunks' = chunks
           /\ hist'[1].result = "Ok"
      ]_vars

---------------------------------------------------------------------------
(* set.rs 120-155: Region::allocate_biome_buffer.                          *)

(* chunk.rs 168-171: ChunkData::set_internal_biome_buffer *)
set_internal_biome_buffer(b, buffer) ==
    [b EXCEPT !.pending_biomes = buffer, !.seen_biomes = {}]

(* set.rs 134-155: for every chunk of the ranges a map with an empty Vec   *)
(* per section is built and handed to set_internal_block_buffer            *)
(* (set.rs 150), which replaces pending_blocks and clears seen_blocks; the *)
(* biome buffer of the chunk is not touched.                               *)
AllocateBiomeBuffer(xs, zs, sections) ==
    /\ flush.pc = "idle"
    /\ calls < MaxCalls
    /\ calls' = calls + 1
    /\ chunks' = [k \in ChunkKeys |->
                    IF k[1] \in xs /\ k[2] \in zs
                    THEN set_internal_block_buffer(chunks[k], [y \in sections |-> <<>>])
                    ELSE chunks[k]]
    /\ hist' = Record(Call("allocate_biome_buffer", <<0, 0, 0>>, Stone, "Ok", FALSE))
    /\ accepted' = [k \in ChunkKeys |-> IF k[1] \in xs /\ k[2] \in zs THEN {} ELSE accepted[k]]
    /\ UNCHANGED <<flush, task, codec, config, bio, refs, par, eq, found, bc, gc, bw>>

(* ChunkData::set_internal_biome_buffer on the chunk of the region *)
SetInternalBiomeBuffer(key, buffer) ==
    /\ flush.pc = "idle"
    /\ calls < MaxCalls
    /\ calls' = calls + 1
    /\ bio' = [bio EXCEPT ![key] = set_internal_biome_buffer(@, buffer)]
    /\ hist' = Record(Call("set_internal_biome_buffer", <<0, 0, 0>>, Stone, "Ok", FALSE))
    /\ UNCHANGED <<chunks, flush, task, accepted, codec, config, refs, par, eq, found, bc, gc, bw>>

BiomeBuffers ==
    { EmptyBuffer, [s \in {4} |-> <<[cell |-> <<1, 0, 0>>, id |-> Desert]>>] }

AllocateNext ==
    \/ \E e \in {<<cFar, Dirt>>, <<cHigh, Stone>>, <<cNear, Dirt>>} : SetBlock(e[1], e[2])
    \/ \E e \in {<<4, <<0, 0, 1>>, Swamp>>, <<5, <<0, 0, 1>>, Desert>>} :
          SetBiome(ChunkOf(cHigh), e[1], e[2], e[3])
    \/ \E xs \in XRanges, sections \in SectionRanges :
          AllocateBiomeBuffer(xs, 0 .. (REGION_SIZE - 1), sections)
    \/ \E buffer \in BiomeBuffers : SetInternalBiomeBuffer(ChunkOf(cHigh), buffer)

AllocateSpec == Init /\ [][AllocateNext]_vars

(* The pending block edits of a chunk, section by section: a section with  *)
(* no bucket and a section with an empty bucket hold the same edits.       *)
PendingEdits(chunk) ==
    [y \in SectionYs |->
        IF y \in DOMAIN chunk.pending_blocks THEN chunk.pending_blocks[y] ELSE <<>>]

(* allocate_biome_buffer has just returned. *)
BiomeBufferAllocated ==
    calls' # calls /\ hist'[1].op = "allocate_biome_buffer"

(* C28: allocate_biome_buffer overwrites the internal biome buffer only:   *)
(* the pending block edits, the block seen-bits and dirty_blocks of every  *)
(* chunk are the same after the call as before it.                         *)
C28_BiomeBufferOnly ==
    [][ BiomeBufferAllocated =>
           \A k \in ChunkKeys :
              /\ PendingEdits(chunks'[k]) = PendingEdits(chunks[k])
              /\ chunks'[k].seen_blocks = chunks[k].seen_blocks
              /\ chunks'[k].dirty_blocks = chunks[k].dirty_blocks
      ]_vars

(* What the call does: it leaves every biome buffer and every dirty flag   *)
(* alone, and sets the block buffer of each chunk it reaches to a map of   *)
(* empty buckets with no seen-bit.                                         *)
BiomeAllocateSetsBlockBuffer ==
    [][ BiomeBufferAllocated =>
           /\ bio' = bio
           /\ \A k \in ChunkKeys :
                 /\ chunks'[k].dirty_blocks = chunks[k].dirty_blocks
                 /\ chunks'[k].nbt = chunks[k].nbt
                 /\ \/ chunks'[k] = chunks[k]
                    \/ /\ chunks'[k].seen_blocks = {}
                       /\ \A y \in DOMAIN chunks'[k].pending_blocks :
                             chunks'[k].pending_blocks[y] = <<>>
      ]_vars

---------------------------------------------------------------------------
(***************************************************************************)
(* biome.rs: BiomeCell and its conversions from and to region-local block  *)
(* coordinates.  A chunk is 16 blocks wide and a cell 4, as in the source: *)
(* the conversions are pure and are applied at full size.  A cell is       *)
(* <<chunk, section, cell>>; bc holds the cell drawn, the conversion       *)
(* applied to it and what the conversion returned.                         *)
(***************************************************************************)

(* v as u8 *)
AsU8(v) == v % 256

(* biome.rs 372-387: BiomeCell::new and its two asserts. *)
BiomeCellNew(chunk, section, cell) ==
    IF ~(chunk[1] < 32 /\ chunk[2] < 32) THEN [result |-> "panic", cell |-> BcIdle.cell]
    ELSE IF ~(cell[1] < 4 /\ cell[2] < 4 /\ cell[3] < 4)
    THEN [result |-> "panic", cell |-> BcIdle.cell]
    ELSE [result |-> "Ok", cell |-> <<chunk, section, cell>>]

(* biome.rs 417-433 *)
coordinates_to_biome_cell(x, y, z) ==
    IF ~(x < 512 /\ z < 512) THEN [result |-> "panic", cell |-> BcIdle.cell]
    ELSE BiomeCellNew(<<AsU8(FloorDiv(x, 16)), AsU8(FloorDiv(z, 16))>>,
                      I8(FloorDiv(y, 16)),
                      <<AsU8((x % 16) \div 4), AsU8((y % 16) \div 4), AsU8((z % 16) \div 4)>>)

(* biome.rs 389-392 *)
from_coordinates(x, y, z) == coordinates_to_biome_cell(x, y, z)

(* biome.rs 394-396: the body is todo!(...), which panics on every call. *)
to_coordinates(cell) == [result |-> "panic", coords |-> <<0, 0, 0>>]

(* The corner of a cell nearest the origin. *)
CornerOf(cell) ==
    <<cell[1][1] * 16 + cell[3][1] * 4,
      cell[2] * 16 + cell[3][2] * 4,
      cell[1][2] * 16 + cell[3][3] * 4>>

(* The cells drawn: chunks at the edges of the region and inside it, the   *)
(* lowest and the highest section of the world, one below and one at zero, *)
(* and every cell of the section.                                          *)
BiomeCells ==
    { <<<<cx, cz>>, s, <<x, y, z>>>> :
         cx \in {0, 1, 31}, cz \in {0, 31}, s \in {-4, -1, 0, 19},
         x \in 0 .. 3, y \in 0 .. 3, z \in 0 .. 3 }

(* The offsets of a block inside its cell a caller may name. *)
CellOffsets == { <<0, 0, 0>>, <<3, 0, 1>>, <<3, 3, 3>> }

CellInit ==
    /\ \E cell \in BiomeCells :
          bc = [BcIdle EXCEPT !.pc = "cell", !.cell = cell, !.back = cell]
    /\ chunks = [k \in ChunkKeys |-> NewChunkData(get_empty_chunk)]
    /\ flush = [pc |-> "idle", todo |-> {}, err |-> "Ok", failed |-> {}, succeeded |-> {},
                before |-> [k \in ChunkKeys |-> EmptyBuffer],
                serial |-> NoSerial]
    /\ hist = <<NoCall>>
    /\ task = NoTask
    /\ accepted = NoAccepted
    /\ calls = 0
    /\ bw = BwIdle
    /\ gc = GcIdle
    /\ found = FoundIdle
    /\ eq = EqIdle
    /\ par = ParIdle
    /\ refs = NoRefs
    /\ bio = BioInit
    /\ config = DefaultConfig
    /\ codec = CodecIdle

(* cell.to_coordinates() followed by BiomeCell::from_coordinates on what   *)
(* it returned: the first call never returns.                              *)
ToCoordinates ==
    LET r == to_coordinates(bc.cell)
        b == IF r.result = "Ok"
             THEN from_coordinates(r.coords[1], r.coords[2], r.coords[3])
             ELSE [result |-> r.result, cell |-> BcIdle.cell]
    IN /\ bc.pc = "cell"
       /\ bc' = [bc EXCEPT !.pc = "to_coordinates", !.result = b.result,
                           !.coords = r.coords, !.back = b.cell]
       /\ UNCHANGED <<chunks, flush, hist, task, accepted, calls, codec, config, bio, refs,
                      par, eq, found, gc, bw>>

(* BiomeCell::from_coordinates on the coordinates of a block of the cell. *)
FromCoordinates(offset) ==
    LET c == <<CornerOf(bc.cell)[1] + offset[1], CornerOf(bc.cell)[2] + offset[2],
               CornerOf(bc.cell)[3] + offset[3]>>
        r == from_coordinates(c[1], c[2], c[3])
    IN /\ bc.pc = "cell"
       /\ bc' = [bc EXCEPT !.pc = "from_coordinates", !.result = r.result,
                           !.coords = c, !.back = r.cell]
       /\ UNCHANGED <<chunks, flush, hist, task, accepted, calls, codec, config, bio, refs,
                      par, eq, found, gc, bw>>

CellNext ==
    \/ ToCoordinates
    \/ \E offset \in CellOffsets : FromCoordinates(offset)

CellSpec == CellInit /\ [][CellNext]_vars

(* C29: Biome-cell round-trip: for every BiomeCell (chunk components < 32, *)
(* cell components < 4, section inside the world height), to_coordinates   *)
(* returns the corner of the cell nearest the origin and from_coordinates  *)
(* applied to it returns the same cell.                                    *)
C29_BiomeCellRoundTrip ==
    bc.pc = "to_coordinates" =>
       /\ bc.result = "Ok"
       /\ bc.coords = CornerOf(bc.cell)
       /\ bc.back = bc.cell

(* from_coordinates on any block of a cell, its corner nearest the origin  *)
(* included, returns the cell.                                             *)
FromCoordinatesOfCell ==
    bc.pc = "from_coordinates" => bc.result = "Ok" /\ bc.back = bc.cell

(* to_coordinates returns for no cell. *)
ToCoordinatesPanics ==
    bc.pc = "to_coordinates" => bc.result = "panic"

---------------------------------------------------------------------------
(* write.rs 250-257, 336-358: the block entities of a chunk under          *)
(* ChunkData::write_blocks.                                                *)

EntityKey == ChunkOf(cFar)

(* Block entities a chunk read from a file may hold: one in section 0, one *)
(* at the same place of section 1 and one elsewhere in section 2.          *)
eBase == [x |-> WIDTH, y |-> 0, z |-> 0]

eAbove == [x |-> WIDTH, y |-> WIDTH, z |-> 0]

eThird == [x |-> WIDTH + 1, y |-> 2 * WIDTH + 1, z |-> 1]

EntityChunk == [get_empty_chunk EXCEPT !.block_entities = <<eBase, eAbove, eThird>>]

EntityInit ==
    /\ chunks = [k \in ChunkKeys |->
                    NewChunkData(IF k = EntityKey THEN EntityChunk ELSE get_empty_chunk)]
    /\ flush = [pc |-> "idle", todo |-> {}, err |-> "Ok", failed |-> {}, succeeded |-> {},
                before |-> [k \in ChunkKeys |-> EmptyBuffer],
                serial |-> NoSerial]
    /\ hist = <<NoCall>>
    /\ task = NoTask
    /\ accepted = NoAccepted
    /\ calls = 0
    /\ bw = BwIdle
    /\ gc = GcIdle
    /\ bc = BcIdle
    /\ found = FoundIdle
    /\ eq = EqIdle
    /\ par = ParIdle
    /\ refs = NoRefs
    /\ bio = BioInit
    /\ config = DefaultConfig
    /\ codec = CodecIdle

(* set_block on the places of the three block entities and on a place of   *)
(* section 0 that holds none.                                              *)
EntityEdits ==
    { <<<<eBase.x, eBase.y, eBase.z>>, Stone>>,
      <<<<eAbove.x, eAbove.y, eAbove.z>>, Dirt>>,
      <<<<eThird.x, eThird.y, eThird.z>>, Stone>>,
      <<<<WIDTH, 1, 0>>, Dirt>> }

EntityNext ==
    \/ \E e \in EntityEdits : SetBlock(e[1], e[2])
    \/ ChunkWrite(EntityKey)

EntitySpec == EntityInit /\ [][EntityNext]_vars

(* A pending edit of the chunk overwrites the place of block entity be. *)
Overwritten(chunk, be) ==
    \E y \in DOMAIN chunk.pending_blocks :
       \E k \in 1 .. Len(chunk.pending_blocks[y]) :
          chunk.pending_blocks[y][k].coordinates = <<AndChunkOp(be.x), be.y, AndChunkOp(be.z)>>

(* ChunkData::write_blocks has just returned Ok on the chunk of the block  *)
(* entities.                                                               *)
EntitiesFlushed ==
    /\ calls' # calls
    /\ hist'[1].op = "chunk_write_blocks"
    /\ hist'[1].result = "Ok"
    /\ hist'[1].c = SectionCorner(EntityKey, 0)

(* C30: ChunkData::write_blocks removes from block_entities exactly the    *)
(* entries whose position was overwritten by a pending edit (same x, z and *)
(* y, hence in the edited section), in every section that the flush        *)
(* processes, and keeps every other block entity of the chunk.             *)
C30_BlockEntitiesRemoved ==
    [][ EntitiesFlushed =>
           chunks'[EntityKey].nbt.block_entities =
              SelectSeq(chunks[EntityKey].nbt.block_entities,
                        LAMBDA be : ~Overwritten(chunks[EntityKey], be))
      ]_vars

(* The indexes of the section list whose section has a bucket. *)
WithBucket(chunk) ==
    { k \in 1 .. Len(chunk.nbt.sections) : chunk.nbt.sections[k].Y \in DOMAIN chunk.pending_blocks }

(* What the call does: the cache is cleared after the first section it     *)
(* processes, so the entries removed are those whose coordinates, each     *)
(* taken & CHUNK_OP, are hit by an edit of that one section, whatever      *)
(* section the entry is in.                                                *)
FirstBucketEvicts ==
    [][ EntitiesFlushed =>
           LET chunk == chunks[EntityKey]
               entities == chunk.nbt.block_entities
               keys == { BlockEntityKey(entities[i]) : i \in 1 .. Len(entities) }
           IN chunks'[EntityKey].nbt.block_entities =
                 IF WithBucket(chunk) = {} THEN entities
                 ELSE LET first == CHOOSE k \in WithBucket(chunk) :
                                      \A j \in WithBucket(chunk) : k <= j
                      IN RetainBlockEntities(entities,
                            MarkedKeys(chunk.pending_blocks[chunk.nbt.sections[first].Y], keys))
      ]_vars

---------------------------------------------------------------------------
(* write.rs 169-196: the block entities of a chunk under set_section.      *)

EvictSections == {0, 1, 2, MAX_SECTION_Y}

EvictNext ==
    \/ \E section_y \in EvictSections, block \in {Stone, Dirt} :
          SetSection(EntityKey, section_y, block)
    \/ \E e \in EntityEdits : SetBlock(e[1], e[2])

EvictSpec == EntityInit /\ [][EvictNext]_vars

(* set_section has just been called on the chunk of the block entities. *)
SectionSetOnEntities ==
    /\ calls' # calls
    /\ hist'[1].op = "set_section"
    /\ ChunkOf(hist'[1].c) = EntityKey

(* C31: set_section(chunk, section_y, B) evicts the block entities located *)
(* inside that section and only those: every block entity of another       *)
(* section of the chunk is kept, and the call returns a Result (no panic)  *)
(* for any number of block entities and any section_y of the world height. *)
C31_SectionEvicts ==
    [][ SectionSetOnEntities =>
           /\ hist'[1].result # "panic"
           /\ hist'[1].result = "Ok" =>
                 chunks'[EntityKey].nbt.block_entities =
                    SelectSeq(chunks[EntityKey].nbt.block_entities,
                              LAMBDA be : SectionOf(be.y) # SectionOf(hist'[1].c[2]))
      ]_vars

(* What the call does have: it adds no block entity and keeps the order of *)
(* those it leaves, and on a chunk without block entities it returns Ok.   *)
SectionEvictsSome ==
    [][ SectionSetOnEntities =>
           LET old == chunks[EntityKey].nbt.block_entities
               new == chunks'[EntityKey].nbt.block_entities
           IN /\ Len(new) <= Len(old)
              /\ \A i \in 1 .. Len(new) : \E j \in i .. Len(old) : new[i] = old[j]
              /\ old = <<>> => hist'[1].result = "Ok"
      ]_vars

---------------------------------------------------------------------------
(* clean_palette as a function of its arguments: the scratch array, the    *)
(* count of decoded indexes and the palette.  gc holds the arguments drawn *)
(* and what the pass returned.                                             *)

GcLen == 4

GcValues == {"a", "b", "c"}

(* Palettes of one to three distinct values, in every order. *)
GcPalettes ==
    UNION { { p \in [1 .. n -> GcValues] : \A i, j \in 1 .. n : i # j => p[i] # p[j] } :
            n \in 1 .. 3 }

(* write.rs 288-295: the scratch array holds valid indexes of the palette  *)
(* when clean_palette is reached; count is what decode_data returned.      *)
GcInputs ==
    UNION { { [GcIdle EXCEPT !.pc = "drawn", !.indexes = xs, !.count = n, !.palette = p] :
              xs \in [0 .. (GcLen - 1) -> 0 .. (Len(p) - 1)], n \in {GcLen - 1, GcLen} } :
            p \in GcPalettes }

GcInit ==
    /\ gc \in GcInputs
    /\ chunks = [k \in ChunkKeys |-> NewChunkData(get_empty_chunk)]
    /\ flush = [pc |-> "idle", todo |-> {}, err |-> "Ok", failed |-> {}, succeeded |-> {},
                before |-> [k \in ChunkKeys |-> EmptyBuffer],
                serial |-> NoSerial]
    /\ hist = <<NoCall>>
    /\ task = NoTask
    /\ accepted = NoAccepted
    /\ calls = 0
    /\ bw = BwIdle
    /\ bc = BcIdle
    /\ found = FoundIdle
    /\ eq = EqIdle
    /\ par = ParIdle
    /\ refs = NoRefs
    /\ bio = BioInit
    /\ config = DefaultConfig
    /\ codec = CodecIdle

(* clean_palette(&mut old_indexes, data_len, palette) *)
CleanPalette ==
    /\ gc.pc = "drawn"
    /\ gc' = [gc EXCEPT !.pc = "cleaned",
                        !.out = clean_palette(gc.indexes, gc.count, gc.palette)]
    /\ UNCHANGED <<chunks, flush, hist, task, accepted, calls, codec, config, bio, refs,
                   par, eq, found, bc, bw>>

GcNext == CleanPalette

GcSpec == GcInit /\ [][GcNext]_vars

(* The place of value v in a palette of distinct values. *)
PlaceOf(palette, v) == CHOOSE i \in 1 .. Len(palette) : palette[i] = v

(* C32: Palette GC: after clean_palette(indices, count, palette) every     *)
(* remaining palette entry is referenced by at least one of                *)
(* indices[0..count], the surviving entries keep their relative order, and *)
(* every index denotes the same palette value as before the pass.          *)
C32_PaletteGC ==
    gc.pc = "cleaned" =>
       /\ \A p \in 0 .. (Len(gc.out.palette) - 1) :
             \E i \in 0 .. (gc.count - 1) : gc.out.indexes[i] = p
       /\ \A p \in 1 .. Len(gc.out.palette) : \E q \in 1 .. Len(gc.palette) :
             gc.out.palette[p] = gc.palette[q]
       /\ \A p, q \in 1 .. Len(gc.out.palette) :
             p < q => PlaceOf(gc.palette, gc.out.palette[p]) < PlaceOf(gc.palette, gc.out.palette[q])
       /\ \A i \in 0 .. (gc.count - 1) :
             /\ gc.out.indexes[i] \in 0 .. (Len(gc.out.palette) - 1)
             /\ gc.out.palette[gc.out.indexes[i] + 1] = gc.palette[gc.indexes[i] + 1]

(* The pass removed an entry below a used one and moved an index down. *)
C32_Witness ==
    /\ gc.pc = "cleaned"
    /\ Len(gc.out.palette) < Len(gc.palette)
    /\ \E i \in 0 .. (gc.count - 1) : gc.out.indexes[i] < gc.indexes[i]

---------------------------------------------------------------------------
(* chunk.rs 116-124, 151-155: the seen_blocks bitset and its indexes.      *)

(* chunk.rs 151-155: the size of the bitset of a chunk. *)
block_bitset == WIDTH * (WorldEnd - WorldStart + 1) * WIDTH

IndexNext == \E e \in Edits : SetBlock(e[1], e[2])

IndexSpec == Init /\ [][IndexNext]_vars

(* set_block has just been called on a coordinate with no buffered edit. *)
SetOnFresh ==
    /\ calls' # calls
    /\ hist'[1].op = "set_block"
    /\ hist'[1].fresh

(* C33: ChunkData::get_block_index maps distinct chunk-local coordinates   *)
(* (x and z inside the chunk, y in the world height) to distinct bit       *)
(* indices, all below the seen_blocks bitset size, so set_block on a       *)
(* coordinate is never reported as already pending because of an edit      *)
(* buffered at a different coordinate.                                     *)
C33_IndexInjective ==
    [][ /\ \A c \in LocalCoordinates : get_block_index(c[1], c[2], c[3]) \in 0 .. (block_bitset - 1)
        /\ \A c, d \in LocalCoordinates :
              c # d => get_block_index(c[1], c[2], c[3]) # get_block_index(d[1], d[2], d[3])
        /\ SetOnFresh => hist'[1].result = "Some"
      ]_vars

(* What the index does have: it is below the size of the bitset, and it    *)
(* tells apart the coordinates of one z.                                   *)
IndexInsideBitset ==
    \A c \in LocalCoordinates : get_block_index(c[1], c[2], c[3]) \in 0 .. (block_bitset - 1)

IndexInjectiveInLayer ==
    \A c, d \in LocalCoordinates :
       (c # d /\ c[3] = d[3]) => get_block_index(c[1], c[2], c[3]) # get_block_index(d[1], d[2], d[3])

(* A set_block on a coordinate without a buffered edit was turned down. *)
FreshTurnedDown ==
    /\ hist[1].op = "set_block"
    /\ hist[1].fresh
    /\ hist[1].result = "None"

---------------------------------------------------------------------------
(* region.rs 589-606, biome.rs 435-445: the bit counts as functions of the *)
(* palette length.  bw holds the length drawn and the counts returned.     *)

(* region.rs 591: a block palette holds at most 4096 entries. *)
BlockPaletteCap == 4096

(* The least k with 2^k >= n. *)
RECURSIVE CeilLog2From(_, _)
CeilLog2From(n, k) == IF 2 ^ k >= n THEN k ELSE CeilLog2From(n, k + 1)

ceil_log2(n) == CeilLog2From(n, 0)

BwInit ==
    /\ \E len \in 1 .. BlockPaletteCap : bw = [BwIdle EXCEPT !.pc = "drawn", !.len = len]
    /\ chunks = [k \in ChunkKeys |-> NewChunkData(get_empty_chunk)]
    /\ flush = [pc |-> "idle", todo |-> {}, err |-> "Ok", failed |-> {}, succeeded |-> {},
                before |-> [k \in ChunkKeys |-> EmptyBuffer],
                serial |-> NoSerial]
    /\ hist = <<NoCall>>
    /\ task = NoTask
    /\ accepted = NoAccepted
    /\ calls = 0
    /\ gc = GcIdle
    /\ bc = BcIdle
    /\ found = FoundIdle
    /\ eq = EqIdle
    /\ par = ParIdle
    /\ refs = NoRefs
    /\ bio = BioInit
    /\ config = DefaultConfig
    /\ codec = CodecIdle

(* get_block_bit_count(palette.len()) *)
BlockBitCount ==
    /\ bw.pc = "drawn"
    /\ ~bw.block_done
    /\ bw' = [bw EXCEPT !.block = get_block_bit_count(bw.len), !.block_done = TRUE]
    /\ UNCHANGED <<chunks, flush, hist, task, accepted, calls, codec, config, bio, refs,
                   par, eq, found, bc, gc>>

(* get_biome_bit_count(palette.len()): a biome palette holds at most one   *)
(* entry per cell of the section.                                          *)
BiomeBitCount ==
    /\ bw.pc = "drawn"
    /\ ~bw.biome_done
    /\ bw.len <= BIOME_DATA_LEN
    /\ bw' = [bw EXCEPT !.biome = get_biome_bit_count(bw.len), !.biome_done = TRUE]
    /\ UNCHANGED <<chunks, flush, hist, task, accepted, calls, codec, config, bio, refs,
                   par, eq, found, bc, gc>>

BwNext ==
    \/ BlockBitCount
    \/ BiomeBitCount

BwSpec == BwInit /\ [][BwNext]_vars

(* C34: Bit width: the block bit count equals max(4, ceil_log2(len)) for   *)
(* every palette length len in 1..=4096, and the biome bit count equals    *)
(* ceil_log2(len) for every palette length len in 1..=64.                  *)
C34_BitWidth ==
    /\ bw.block_done => bw.block = (IF ceil_log2(bw.len) > 4 THEN ceil_log2(bw.len) ELSE 4)
    /\ bw.biome_done => bw.biome = ceil_log2(bw.len)

(* Both counts of a length just above a power of two were computed, the    *)
(* block count above its floor of 4.                                       *)
C34_Witness ==
    /\ bw.block_done /\ bw.biome_done
    /\ bw.len = 33
    /\ bw.block = 6 /\ bw.biome = 6

---------------------------------------------------------------------------
(* data.rs 6-38: the layout of the longs encode_data stores.               *)

(* encode_data(bit_count, &out, m, state) on a state that holds a data     *)
(* array: the decoded indexes, or the first of them, are written back.     *)
Reencode(first) ==
    LET m == IF first THEN 1 ELSE codec.count
    IN /\ codec.pc = "decoded"
       /\ m >= 1 /\ m <= codec.count
       /\ codec' = [codec EXCEPT !.pc = "reencoded",
                                 !.xs = codec.out,
                                 !.n = m,
                                 !.longs = EncodeData(codec.bit_count, codec.out, m)]
       /\ UNCHANGED <<chunks, flush, hist, task, accepted, calls, config, bio, refs, par, eq,
                      found, bc, gc, bw>>

PackNext ==
    \/ Encode
    \/ Decode
    \/ \E first \in BOOLEAN : Reencode(first)

PackSpec == CodecInit /\ [][PackNext]_vars

(* The bits of a long at offset .. offset + bit_count - 1, moved down. *)
Slot(long, offset, bit_count) ==
    { j - offset : j \in long \cap (offset .. (offset + bit_count - 1)) }

(* C35: encode_data with bit width b in 1..=12 and count indices that each *)
(* fit in b bits stores exactly ceil(count / floor(64/b)) longs, places    *)
(* index k at bit offset (k mod floor(64/b))*b of long k div floor(64/b)   *)
(* so that no index straddles a word boundary, and leaves all unused bits  *)
(* zero; an existing data array is replaced in place.                      *)
C35_PackedLayout ==
    (codec.pc \in {"encoded", "reencoded"} /\ codec.bit_count \in 1 .. 12) =>
       LET b == codec.bit_count
           per == PerLong(b)
       IN /\ Len(codec.longs) = (codec.n + per - 1) \div per
          /\ \A k \in 0 .. (codec.n - 1) :
                /\ (k % per) * b + b <= LONG_BITS
                /\ Slot(codec.longs[(k \div per) + 1], (k % per) * b, b) = ToBits(codec.xs[k])
          /\ \A w \in 1 .. Len(codec.longs) :
                codec.longs[w] \subseteq
                   UNION { ((k % per) * b) .. ((k % per) * b + b - 1) :
                           k \in { i \in 0 .. (codec.n - 1) : (i \div per) + 1 = w } }

(* A data array of several longs whose width leaves unused bits in each    *)
(* long was replaced by the encoding of its first index.                   *)
C35_Witness ==
    /\ codec.pc = "reencoded"
    /\ codec.bit_count = 5
    /\ codec.count > PerLong(5)
    /\ codec.n = 1
    /\ codec.longs = <<ToBits(codec.xs[0])>>
    /\ codec.xs[0] > 0

---------------------------------------------------------------------------
(* write.rs 222-225, 259-269: lighting under ChunkData::write_blocks.      *)

(* A chunk read from a file that the game has lit: isLightOn is 1 and      *)
(* every section holds both light tags.                                    *)
LitChunk ==
    [LoadedChunk(FALSE) EXCEPT
        !.sections = [i \in DOMAIN @ |-> [@[i] EXCEPT !.light = LightTags]]]

LitKey == ChunkOf(cFar)

(* A region opened under any Config, the chunk of cFar being lit. *)
LightInit ==
    /\ chunks = [k \in ChunkKeys |->
                    NewChunkData(IF k = LitKey THEN LitChunk ELSE get_empty_chunk)]
    /\ config \in Configs
    /\ flush = [pc |-> "idle", todo |-> {}, err |-> "Ok", failed |-> {}, succeeded |-> {},
                before |-> [k \in ChunkKeys |-> EmptyBuffer],
                serial |-> NoSerial]
    /\ hist = <<NoCall>>
    /\ task = NoTask
    /\ accepted = NoAccepted
    /\ calls = 0
    /\ bw = BwIdle
    /\ gc = GcIdle
    /\ bc = BcIdle
    /\ found = FoundIdle
    /\ eq = EqIdle
    /\ par = ParIdle
    /\ refs = NoRefs
    /\ bio = BioInit
    /\ codec = CodecIdle

LightEdits ==
    { <<cFar, Dirt>>, <<cBelow, Stone>>, <<<<WIDTH, 2 * WIDTH, 1>>, Stone>>, <<cHigh, Stone>> }

LightNext ==
    \/ \E e \in LightEdits : SetBlock(e[1], e[2])
    \/ \E sections \in { 0 .. 1, 2 .. 3 } :
          AllocateBlockBuffer(0 .. (REGION_SIZE - 1), 0 .. (REGION_SIZE - 1), sections)
    \/ ChunkWrite(LitKey)

LightSpec == LightInit /\ [][LightNext]_vars

(* ChunkData::write_blocks has just returned on the lit chunk. *)
LitFlushed ==
    /\ calls' # calls
    /\ hist'[1].op = "chunk_write_blocks"
    /\ hist'[1].c = SectionCorner(LitKey, 0)

(* The sections of a chunk that have pending edits, and those that have a  *)
(* bucket in the pending buffer, with edits or empty.                      *)
EditedSections(chunk) ==
    { y \in DOMAIN chunk.pending_blocks : chunk.pending_blocks[y] # <<>> }

BucketSections(chunk) == DOMAIN chunk.pending_blocks

(* The lighting of the lit chunk after a flush: untouched when             *)
(* update_lighting is off, and after an Ok flush with it on isLightOn is 0 *)
(* and the light tags are gone from exactly the sections of `touched`.     *)
LightingReset(touched) ==
    LET old == chunks[LitKey].nbt
        new == chunks'[LitKey].nbt
    IN /\ ~config.update_lighting =>
             /\ new.isLightOn = old.isLightOn
             /\ \A k \in 1 .. Len(old.sections) : new.sections[k].light = old.sections[k].light
       /\ (config.update_lighting /\ hist'[1].result = "Ok") =>
             /\ new.isLightOn = 0
             /\ \A k \in 1 .. Len(old.sections) :
                   new.sections[k].light =
                      IF old.sections[k].Y \in touched THEN {} ELSE old.sections[k].light

---------------------------------------------------------------------------
(* write.rs 297-322: the palette of a section under repeated flushes.      *)

(* Block::try_new_with_props("minecraft:stone", &[]) *)
StoneNoProps == NewBlockWithProps(Namespaced(StoneName), {})

DistinctEdits ==
    { <<cHigh, StoneNoProps>>, <<cNear, StoneNoProps>>, <<cNear, Stone>>, <<cHigh, Dirt>>,
      <<cFar, Dirt>> }

DistinctNext ==
    \/ \E e \in DistinctEdits : SetBlock(e[1], e[2])
    \/ \E key \in {ChunkOf(cHigh), ChunkOf(cFar)} : ChunkWrite(key)

DistinctSpec == Init /\ [][DistinctNext]_vars

(* The block palette of every section of the chunk holds pairwise distinct *)
(* entries.                                                                *)
DistinctPalettes(chunk) ==
    \A k \in 1 .. Len(chunk.nbt.sections) :
       LET palette == chunk.nbt.sections[k].block_states.palette
       IN \A i, j \in 1 .. Len(palette) : i # j => palette[i] # palette[j]

(* C37: After any sequence of set_block and write_blocks calls starting    *)
(* from a chunk whose palettes hold distinct values, every section's block *)
(* palette still holds pairwise distinct blocks: a pending block that      *)
(* equals an existing palette entry reuses that entry instead of appending *)
(* a duplicate.                                                            *)
C37_DistinctPalettes ==
    \A key \in ChunkKeys : DistinctPalettes(chunks[key])

(* A pending edit of the chunk carries Some(properties) with no property. *)
PendingNoProps(chunk) ==
    \E y \in DOMAIN chunk.pending_blocks : \E k \in 1 .. Len(chunk.pending_blocks[y]) :
       /\ chunk.pending_blocks[y][k].block.properties.some
       /\ chunk.pending_blocks[y][k].block.properties.map = {}

(* What the flush does have: a write_blocks none of whose pending blocks   *)
(* carries an empty property map keeps distinct palettes distinct.         *)
DistinctWithoutNoProps ==
    [][ \A key \in ChunkKeys :
           (DistinctPalettes(chunks[key]) /\ ~PendingNoProps(chunks[key]))
              => DistinctPalettes(chunks'[key])
      ]_vars

---------------------------------------------------------------------------
(* write.rs 22-32: which chunks Region::write_blocks flushes.              *)

(* The chunks that were dirty when the running flush began: those waiting  *)
(* for their task and those whose task has returned.                       *)
DirtyAtBegin == flush.todo \cup flush.succeeded \cup flush.failed

(* Region::write_blocks returns. *)
FlushReturns == flush.pc = "running" /\ flush'.pc = "idle"

(* While a flush runs, a chunk without the dirty flag keeps its NBT,       *)
(* buffers and flags, and no chunk is handed to a second task.             *)
CleanChunksSkipped ==
    flush.pc = "running" =>
       /\ \A k \in ChunkKeys : ~chunks[k].dirty_blocks => chunks'[k] = chunks[k]
       /\ \A k \in ChunkKeys :
             chunks'[k] # chunks[k] => (k \in flush.todo /\ k \notin flush'.todo)
       /\ flush.succeeded \cap flush.failed = {}
       /\ flush.todo \cap (flush.succeeded \cup flush.failed) = {}

(* C38: Region::write_blocks flushes each chunk whose dirty_blocks flag is *)
(* set exactly once and skips every other chunk: a chunk without the flag  *)
(* has the same NBT (including Heightmaps, isLightOn and block_entities),  *)
(* buffers and flags after the flush as before.                            *)
C38_DirtyFlushedOnce ==
    [][ /\ CleanChunksSkipped
        /\ FlushReturns => \A k \in DirtyAtBegin : k \in flush.succeeded \cup flush.failed
      ]_vars

(* C38 for a flush that may fail: the task of a dirty chunk runs at most   *)
(* once, and exactly once when write_blocks returns Ok; every chunk        *)
(* without the flag is skipped.                                            *)
C38_DirtyFlushedAtMostOnce ==
    [][ /\ CleanChunksSkipped
        /\ (FlushReturns /\ flush.err = "Ok") =>
              /\ flush.todo = {} /\ flush.failed = {}
              /\ \A k \in ChunkKeys : ~chunks[k].dirty_blocks
      ]_vars

(* A flush returned Ok after it wrote a dirty chunk and skipped a chunk    *)
(* that holds a buffered edit without the dirty flag.                      *)
C38_Witness ==
    /\ flush.pc = "idle" /\ hist[1].op = "write_blocks" /\ hist[1].result = "Ok"
    /\ flush.succeeded # {}
    /\ \E k \in ChunkKeys \ flush.succeeded :
          \E y \in DOMAIN chunks[k].pending_blocks : chunks[k].pending_blocks[y] # <<>>

---------------------------------------------------------------------------
(* write.rs 22-32: a flush under a fair pool.  Every task the pool has     *)
(* still to run is run, a task being one call of ChunkData::write_blocks   *)
(* under the exclusive handle of its own chunk, and try_for_each returns   *)
(* once no task is left or one has failed.                                 *)

LiveEdits == { <<cHigh, Stone>>, <<cFar, Dirt>>, <<cBelow, Stone>>, <<cLow, Dirt>> }

LiveNext ==
    \/ \E e \in LiveEdits : SetBlock(e[1], e[2])
    \/ WriteBlocksBegin
    \/ \E key \in ChunkKeys : WriteChunk(key)
    \/ WriteBlocksEnd

(* error.rs: what a task can return. *)
TaskErrors == { "Ok", "InvalidPaletteIndex", "MissingNbtTag", "TriedToAccessArc", "OutOfBounds" }

(* What the pool sees of a task: a chunk the pool still had to run has     *)
(* returned, with Ok or an error.                                          *)
TaskReturns ==
    /\ flush.pc = "running"
    /\ \E key \in flush.todo, err \in TaskErrors : flush' = FlushAfter(key, err)

(* The pool runs the tasks it holds and try_for_each returns when it can:  *)
(* a task needs the handle of its own chunk only, which par_iter_mut gave  *)
(* it, so nothing keeps it from running.                                   *)
LiveSpec ==
    /\ Init
    /\ [][LiveNext]_vars
    /\ WF_flush(TaskReturns)
    /\ WF_vars(WriteBlocksEnd)

(* Every task of the pool is a task that returns. *)
TasksReturn ==
    [][ (flush.pc = "running" /\ flush'.pc = "running") => TaskReturns ]_vars

(* Region::write_blocks has returned: Ok with every dirty chunk flushed,   *)
(* or the error of the first task that failed.                             *)
FlushCompleted ==
    /\ flush.pc = "idle"
    /\ hist[1].op = "write_blocks"
    /\ hist[1].result = flush.err
    /\ flush.err = "Ok" =>
          /\ flush.failed = {}
          /\ \A k \in ChunkKeys : ~chunks[k].dirty_blocks
    /\ flush.err # "Ok" => flush.failed # {}

(* C39: A flush runs to completion: under every fair scheduling of the     *)
(* per-chunk tasks Region::write_blocks eventually returns, either Ok      *)
(* after every dirty chunk was flushed or the first error encountered; no  *)
(* task waits for a chunk handle while holding another one, so the flush   *)
(* cannot deadlock.                                                        *)
C39_FlushCompletes ==
    (flush.pc = "running") ~> FlushCompleted

(* A flush returned the error of a failed task after another task had      *)
(* flushed its chunk.                                                      *)
C39_Witness ==
    /\ FlushCompleted
    /\ flush.err # "Ok"
    /\ flush.succeeded # {}

(* While a flush runs, a step changes the chunk of at most one task: a     *)
(* task holds the handle of its own chunk and of no other.                 *)
OneHandlePerTask ==
    [][ flush.pc = "running" =>
           \A j, k \in ChunkKeys : (chunks'[j] # chunks[j] /\ chunks'[k] # chunks[k]) => j = k
      ]_vars

===========================================================================
